---- MODULE Spec2Model ----
(***************************************************************************)
(* Model of the production ETL workflow of spark-etl-agent                 *)
(* (services/jcap_pa_etl_service.py) together with the collaborators it    *)
(* drives: the warehouse connector (utils/db_utils.py), the object-store   *)
(* adapter (services/s3_service.py) and the notifier                       *)
(* (services/email_service.py).                                            *)
(*                                                                         *)
(* A table's content is abstracted to a record [tag, n]: n is the row      *)
(* count and tag names the data set the rows come from ("prod": rows that  *)
(* were in the production table before the first modelled run, "cdp": a    *)
(* raw extract of the source warehouse, "jcap": a transformed extract).    *)
(* Floating-point percentages are modelled as exact rationals [num, den];  *)
(* IEEE rounding of the division is not modelled.                          *)
(***************************************************************************)
EXTENDS Integers, Sequences, FiniteSets, TLC

(***************************************************************************)
(* Bounds                                                                  *)
(***************************************************************************)
MaxRuns == 2
MaxCount == 2

(***************************************************************************)
(* Program constants                                                       *)
(***************************************************************************)
main_table == "jcap_pa"
\* Variant: the backup location is given the production table's name.
backup_table_wrong == main_table
backup_table == "jcap_pa_bkp"
DefaultThreshold == 5
MinThreshold == 0
MaxThreshold == 100

\* Row counts used by the end-to-end scenarios (0, 950, 1000 rows).
RowCounts == {0, 950, 1000}
\* Inputs of the variance computation when it is exercised on its own.
VarCounts == (0 .. MaxCount) \cup {100, 105, 950, 1000}
Thresholds == {MinThreshold, DefaultThreshold, MaxThreshold}

NoCount == 0 - 1
Empty == [tag |-> "none", n |-> 0]
Absent == [tag |-> "absent", n |-> 0]
NoError == [prefix |-> "", cause |-> ""]
NoVariance == [variance_percentage |-> [num |-> 0, den |-> 1],
               threshold_exceeded |-> FALSE, email_sent |-> FALSE]
NoResult == [status |-> "none"]

StepOrder == <<"backup", "extract", "transform", "stage", "load", "validate">>

Content(tg, k) == IF k = 0 THEN Empty ELSE [tag |-> tg, n |-> k]

(***************************************************************************)
(* Warehouse connector (utils/db_utils.py)                                 *)
(***************************************************************************)
\* truncate_table: returns normally with the table emptied, or raises; a
\* raising overwrite may or may not have emptied the table already.
TruncateOutcomes ==
  { [raised |-> FALSE, emptied |-> TRUE],
    [raised |-> TRUE, emptied |-> FALSE],
    [raised |-> TRUE, emptied |-> TRUE] }

\* Variant: the production table is truncated whatever table is named.
truncate_table_main(tbls, name, tr) ==
  IF tr.emptied THEN [tbls EXCEPT ![main_table] = Empty] ELSE tbls

truncate_table(tbls, name, tr) ==
  IF tr.emptied THEN [tbls EXCEPT ![name] = Empty] ELSE tbls

\* write_table: the JDBC write of d either raises or returns; in both cases
\* k <= d.n of the rows have been persisted.
WriteOutcomes(d) ==
  { [raised |-> r, persisted |-> k] : r \in BOOLEAN, k \in {c \in RowCounts : c <= d.n} }

AppendRows(t, d, k) ==
  IF k = 0 THEN t
  ELSE IF t.n = 0 THEN [tag |-> d.tag, n |-> k]
  ELSE [tag |-> IF t.tag = d.tag THEN t.tag ELSE "mixed", n |-> t.n + k]

write_table(tbls, d, name, w) ==
  [tbls EXCEPT ![name] = AppendRows(tbls[name], d, w.persisted)]

get_table_count(tbls, name) == tbls[name].n

VARIABLES
  tables, staged, threshold,
  pc, previous_count, df, df_transformed, current_count, variance_result,
  error, result,
  runs, started, returned, mainTruncCalls, mainWriteCalls, mainEmptied,
  alertsAttempted, notes, origRead, bkRead, startMain, startStaged, finalRead, atRisk,
  alertOutcome, clock, start_time,
  app_pc, job_config, supplied_by, continuous, interval, settings_empty,
  shutdown_requested, stats, sleep_left, job_result, job_start, exit_code,
  handlerCalls, poc_dest, poc_source, last_rows, run_config, today,
  call_stack, trunc_pc

vars == <<tables, staged, threshold,
          pc, previous_count, df, df_transformed, current_count, variance_result,
          error, result,
          runs, started, returned, mainTruncCalls, mainWriteCalls, mainEmptied,
          alertsAttempted, notes, origRead, bkRead, startMain, startStaged, finalRead, atRisk,
          alertOutcome, clock, start_time,
          app_pc, job_config, supplied_by, continuous, interval, settings_empty,
          shutdown_requested, stats, sleep_left, job_result, job_start, exit_code,
          handlerCalls, poc_dest, poc_source, last_rows, run_config, today,
          call_stack, trunc_pc>>

\* The state of the process around the job handlers: the entry point, the
\* continuous-run supervisor and the job dispatcher.
appvars == <<app_pc, job_config, supplied_by, continuous, interval, settings_empty,
             shutdown_requested, stats, sleep_left, job_result, job_start, exit_code,
             handlerCalls, poc_dest, poc_source, last_rows, run_config, today,
          call_stack, trunc_pc>>

NoConfig == [k \in {} |-> ""]
NoStats == [total_runs |-> 0, successful_runs |-> 0, failed_runs |-> 0,
            total_rows_processed |-> 0]

\* The process state when a handler is exercised on its own.
AppIdle ==
  /\ app_pc = "none"
  /\ job_config = NoConfig
  /\ supplied_by = "none"
  /\ continuous = FALSE
  /\ interval = 0
  /\ settings_empty = {}
  /\ shutdown_requested = FALSE
  /\ stats = NoStats
  /\ sleep_left = 0
  /\ job_result = NoResult
  /\ job_start = 0
  /\ exit_code = NoCount
  /\ handlerCalls = 0
  /\ poc_dest = Empty
  /\ poc_source = 0
  /\ last_rows = NoCount
  /\ run_config = NoConfig
  /\ today = 1
  /\ call_stack = <<>>
  /\ trunc_pc = "idle"

RunInit ==
  /\ previous_count = NoCount
  /\ df = Empty
  /\ df_transformed = Empty
  /\ current_count = NoCount
  /\ variance_result = NoVariance
  /\ error = NoError
  /\ result = NoResult
  /\ started = <<>>
  /\ returned = <<>>
  /\ mainTruncCalls = 0
  /\ mainWriteCalls = 0
  /\ mainEmptied = FALSE
  /\ alertsAttempted = 0
  /\ notes = <<>>
  /\ origRead = NoCount
  /\ bkRead = NoCount
  /\ finalRead = NoCount
  /\ alertOutcome = "none"
  /\ clock = 0
  /\ start_time = 0

Init ==
  /\ tables \in [{main_table, backup_table} -> {Content("prod", k) : k \in RowCounts}]
  /\ staged \in {Absent} \cup {Content("jcap", k) : k \in RowCounts}
  /\ threshold \in Thresholds
  /\ pc = "idle"
  /\ runs = 0
  /\ startMain = tables[main_table]
  /\ startStaged = staged
  /\ atRisk = Empty
  /\ RunInit
  /\ AppIdle

(***************************************************************************)
(* run_jcap_pa_etl: entry                                                  *)
(***************************************************************************)
\* The handler's entry: its locals are fresh, and the bookkeeping of the run
\* (steps started, calls issued, contents at the start) is reset.
EnterRun ==
  /\ runs' = runs + 1
  /\ pc' = "backup"
  /\ previous_count' = NoCount
  /\ df' = Empty
  /\ df_transformed' = Empty
  /\ current_count' = NoCount
  /\ variance_result' = NoVariance
  /\ error' = NoError
  /\ result' = NoResult
  /\ started' = <<>>
  /\ returned' = <<>>
  /\ mainTruncCalls' = 0
  /\ mainWriteCalls' = 0
  /\ mainEmptied' = FALSE
  /\ alertsAttempted' = 0
  /\ alertOutcome' = "none"
  /\ notes' = <<>>
  /\ origRead' = NoCount
  /\ bkRead' = NoCount
  /\ finalRead' = NoCount
  /\ startMain' = tables[main_table]
  /\ startStaged' = staged
  /\ UNCHANGED <<tables, staged, threshold, atRisk>>

\* run_jcap_pa_etl called directly; time is counted from the call.
StartRun ==
  /\ pc \in {"idle", "done"}
  /\ runs < MaxRuns
  /\ EnterRun
  /\ start_time' = 0
  /\ clock' = 1
  /\ UNCHANGED appvars

\* Variant: the load is started before the staging.
NextStepLoadFirst(step) ==
  CASE step = "backup" -> "extract"
    [] step = "extract" -> "transform"
    [] step = "transform" -> "load"
    [] step = "load" -> "stage"
    [] step = "stage" -> "validate"
    [] step = "validate" -> "validated"

\* The step that run_jcap_pa_etl starts after a step has returned.
NextStep(step) ==
  CASE step = "backup" -> "extract"
    [] step = "extract" -> "transform"
    [] step = "transform" -> "stage"
    [] step = "stage" -> "load"
    [] step = "load" -> "validate"
    [] step = "validate" -> "validated"

(***************************************************************************)
(* Step 1: _create_and_validate_backup                                     *)
(***************************************************************************)
\* Variant: a backup holding fewer rows than the original is accepted.
BackupValidAtMost(original_count, backup_count) == backup_count <= original_count

\* Variant: the backup count is not compared at all.
BackupValidAlways(original_count, backup_count) == TRUE

BackupValid(original_count, backup_count) == original_count = backup_count

\* Variant: an empty production table is copied like any other.
SkipCopyNever(original_count) == FALSE

\* if original_count == 0: the copy is skipped and 0 is returned.
SkipCopy(original_count) == original_count = 0

\* The outcome of Backup Guard for one choice of collaborator behaviour:
\* tr: truncate of the backup table, cntOk: count of the production table,
\* rdOk: read of the production table, w: append-write to the backup table,
\* cnt2Ok: count of the backup table.
BackupGuard(tbls, tr, cntOk, rdOk, w, cnt2Ok) ==
  LET t1 == truncate_table(tbls, backup_table, tr)
      original_count == get_table_count(t1, main_table)
      t2 == write_table(t1, t1[main_table], backup_table, w)
      backup_count == get_table_count(t2, backup_table)
      out(t, c, ret, o, b) ==
        [tables |-> t, cause |-> c, ret |-> ret, origRead |-> o, bkRead |-> b]
  IN
  IF tr.raised THEN out(t1, "Truncate operation failed", NoCount, NoCount, NoCount)
  ELSE IF ~cntOk THEN out(t1, "Count operation failed", NoCount, NoCount, NoCount)
  ELSE IF SkipCopy(original_count) THEN out(t1, "", 0, original_count, NoCount)
  ELSE IF ~rdOk THEN out(t1, "Copy operation failed", NoCount, original_count, NoCount)
  ELSE IF w.raised THEN out(t2, "Copy operation failed", NoCount, original_count, NoCount)
  ELSE IF ~cnt2Ok THEN out(t2, "Count operation failed", NoCount, original_count, NoCount)
  ELSE IF ~BackupValid(original_count, backup_count)
       THEN out(t2, "Backup validation failed", NoCount, original_count, backup_count)
  ELSE out(t2, "", original_count, original_count, backup_count)

CreateAndValidateBackup ==
  /\ pc = "backup"
  /\ \E tr \in TruncateOutcomes, cntOk \in BOOLEAN, rdOk \in BOOLEAN,
        w \in WriteOutcomes(tables[main_table]), cnt2Ok \in BOOLEAN :
       LET o == BackupGuard(tables, tr, cntOk, rdOk, w, cnt2Ok) IN
       /\ tables' = o.tables
       /\ origRead' = o.origRead
       /\ bkRead' = o.bkRead
       /\ started' = Append(started, "backup")
       /\ IF o.cause = ""
          THEN /\ previous_count' = o.ret
               /\ returned' = Append(returned, "backup")
               /\ pc' = NextStep("backup")
               /\ error' = error
          ELSE /\ previous_count' = previous_count
               /\ returned' = returned
               /\ pc' = "failed"
               /\ error' = [prefix |-> "Backup creation failed", cause |-> o.cause]
  /\ UNCHANGED <<staged, threshold, df, df_transformed, current_count,
                 variance_result, result, runs, mainTruncCalls, mainWriteCalls,
                 mainEmptied, alertsAttempted, notes, startMain, startStaged, finalRead, atRisk>>
  /\ clock' = clock + 1
  /\ UNCHANGED <<start_time, alertOutcome>>
  /\ UNCHANGED appvars

(***************************************************************************)
(* Step 2: _extract_cdp_data                                               *)
(***************************************************************************)
\* execute_sql on the source warehouse returns a raw extract of k rows.
execute_sql(k) == Content("cdp", k)

ExtractCdpData ==
  /\ pc = "extract"
  /\ started' = Append(started, "extract")
  /\ \E ok \in BOOLEAN, k \in RowCounts :
       IF ok
       THEN /\ df' = execute_sql(k)
            /\ returned' = Append(returned, "extract")
            /\ pc' = NextStep("extract")
            /\ error' = error
       ELSE /\ df' = df
            /\ returned' = returned
            /\ pc' = "failed"
            /\ error' = [prefix |-> "CDP extraction failed", cause |-> "SQL execution failed"]
  /\ UNCHANGED <<tables, staged, threshold, previous_count, df_transformed,
                 current_count, variance_result, result, runs, mainTruncCalls,
                 mainWriteCalls, mainEmptied, alertsAttempted, notes, origRead,
                 bkRead, startMain, startStaged, finalRead, atRisk>>
  /\ clock' = clock + 1
  /\ UNCHANGED <<start_time, alertOutcome>>
  /\ UNCHANGED appvars

(***************************************************************************)
(* Step 3: _transform_data                                                 *)
(***************************************************************************)
\* Variant: a row whose dates cannot be parsed is dropped.
transform_data_drops_row(d) == Content("jcap", IF d.n > 0 THEN d.n - 1 ELSE 0)

\* Column-level casts and renames: the rows become rows of the destination
\* schema, one output row per input row.
transform_data(d) == Content("jcap", d.n)

TransformData ==
  /\ pc = "transform"
  /\ started' = Append(started, "transform")
  /\ \E ok \in BOOLEAN :
       IF ok
       THEN /\ df_transformed' = transform_data(df)
            /\ returned' = Append(returned, "transform")
            /\ pc' = NextStep("transform")
            /\ error' = error
       ELSE /\ df_transformed' = df_transformed
            /\ returned' = returned
            /\ pc' = "failed"
            /\ error' = [prefix |-> "Data transformation failed", cause |-> "transform error"]
  /\ UNCHANGED <<tables, staged, threshold, previous_count, df, current_count,
                 variance_result, result, runs, mainTruncCalls, mainWriteCalls,
                 mainEmptied, alertsAttempted, notes, origRead, bkRead,
                 startMain, startStaged, finalRead, atRisk>>
  /\ clock' = clock + 1
  /\ UNCHANGED <<start_time, alertOutcome>>
  /\ UNCHANGED appvars

(***************************************************************************)
(* Step 4: _stage_to_s3 and the object-store adapter                       *)
(***************************************************************************)
\* path_exists: fs.exists, or False when the lookup raises.
path_exists(st, ok) == ok /\ st # Absent

\* delete_path: deletes when the path is seen to exist; failures are logged
\* and swallowed.
delete_path(st, seen, delOk) ==
  IF path_exists(st, seen) /\ delOk THEN Absent ELSE st

\* write_parquet in overwrite mode: replaces the content, or raises, in
\* which case the overwrite may already have removed the old content.
StageWriteOutcomes ==
  { [raised |-> FALSE, wiped |-> TRUE],
    [raised |-> TRUE, wiped |-> FALSE],
    [raised |-> TRUE, wiped |-> TRUE] }

write_parquet(st, d, wr) ==
  IF ~wr.raised THEN d
  ELSE IF wr.wiped THEN Absent ELSE st

StageOutcome(st, d, seen1, seen2, delOk, wr) ==
  LET s1 == IF path_exists(st, seen1) THEN delete_path(st, seen2, delOk) ELSE st
  IN [staged |-> write_parquet(s1, d, wr),
      cause |-> IF wr.raised THEN "S3 write failed" ELSE ""]

StageToS3 ==
  /\ pc = "stage"
  /\ started' = Append(started, "stage")
  /\ \E seen1 \in BOOLEAN, seen2 \in BOOLEAN, delOk \in BOOLEAN,
        wr \in StageWriteOutcomes :
       LET o == StageOutcome(staged, df_transformed, seen1, seen2, delOk, wr) IN
       /\ staged' = o.staged
       /\ IF o.cause = ""
          THEN /\ returned' = Append(returned, "stage")
               /\ pc' = NextStep("stage")
               /\ error' = error
          ELSE /\ returned' = returned
               /\ pc' = "failed"
               /\ error' = [prefix |-> "S3 staging failed", cause |-> o.cause]
  /\ UNCHANGED <<tables, threshold, previous_count, df, df_transformed,
                 current_count, variance_result, result, runs, mainTruncCalls,
                 mainWriteCalls, mainEmptied, alertsAttempted, notes, origRead,
                 bkRead, startMain, startStaged, finalRead, atRisk>>
  /\ clock' = clock + 1
  /\ UNCHANGED <<start_time, alertOutcome>>
  /\ UNCHANGED appvars

(***************************************************************************)
(* Step 5: _load_to_destination                                            *)
(***************************************************************************)
\* Variant: an empty table after the load is not treated as an error.
LoadCheckLax(final_count, row_count) == ""

\* Variant: any difference from the number of rows written is fatal.
LoadCheckStrict(final_count, row_count) ==
  IF final_count = 0 THEN "No rows loaded despite successful write operation!"
  ELSE IF final_count # row_count THEN "Row count mismatch"
  ELSE ""

\* The verdict on the count read back: an empty table is fatal, any other
\* difference from the number of rows written is only logged.
LoadCheck(final_count, row_count) ==
  IF final_count = 0 THEN "No rows loaded despite successful write operation!"
  ELSE ""

\* Variant: the load leaves the production table alone when it has no row
\* to write.
TruncatesOnlyForRows(row_count) == row_count > 0

\* The load truncates the production table as its first statement, before
\* it counts the rows it is about to write.
Truncates(row_count) == TRUE

\* tr: truncate of the production table, cntOk: df_transformed.count(),
\* w: append-write to the production table, cnt2Ok: count read back.
LoadOutcome(tbls, d, tr, cntOk, w, cnt2Ok) ==
  LET t1 == IF Truncates(d.n) THEN truncate_table(tbls, main_table, tr) ELSE tbls
      row_count == d.n
      t2 == write_table(t1, d, main_table, w)
      final_count == get_table_count(t2, main_table)
      out(t, c, wrote, f) ==
        [tables |-> t, cause |-> c, wrote |-> wrote, finalRead |-> f]
  IN
  IF tr.raised THEN out(t1, "Truncate operation failed", FALSE, NoCount)
  ELSE IF ~cntOk THEN out(t1, "count failed", FALSE, NoCount)
  ELSE IF w.raised THEN out(t2, "Write operation failed", TRUE, NoCount)
  ELSE IF ~cnt2Ok THEN out(t2, "Count operation failed", TRUE, NoCount)
  ELSE out(t2, LoadCheck(final_count, row_count), TRUE, final_count)

LoadToDestination ==
  /\ pc = "load"
  /\ started' = Append(started, "load")
  /\ mainTruncCalls' = mainTruncCalls + 1
  /\ \E tr \in TruncateOutcomes, cntOk \in BOOLEAN,
        w \in WriteOutcomes(df_transformed), cnt2Ok \in BOOLEAN :
       LET o == LoadOutcome(tables, df_transformed, tr, cntOk, w, cnt2Ok) IN
       /\ tables' = o.tables
       /\ finalRead' = o.finalRead
       /\ mainEmptied' = tr.emptied
       /\ mainWriteCalls' = IF o.wrote THEN mainWriteCalls + 1 ELSE mainWriteCalls
       /\ atRisk' = IF o.cause = "" THEN Empty
                    ELSE IF tr.emptied /\ tables[main_table].n > 0
                         THEN tables[main_table]
                    ELSE atRisk
       /\ IF o.cause = ""
          THEN /\ returned' = Append(returned, "load")
               /\ pc' = NextStep("load")
               /\ error' = error
          ELSE /\ returned' = returned
               /\ pc' = "failed"
               /\ error' = [prefix |-> "Destination load failed", cause |-> o.cause]
  /\ UNCHANGED <<staged, threshold, previous_count, df, df_transformed,
                 current_count, variance_result, result, runs, alertsAttempted,
                 notes, origRead, bkRead, startMain, startStaged>>
  /\ clock' = clock + 1
  /\ UNCHANGED <<start_time, alertOutcome>>
  /\ UNCHANGED appvars

(***************************************************************************)
(* Step 6: count read-back and _validate_and_alert                         *)
(***************************************************************************)
Abs(x) == IF x < 0 THEN -x ELSE x

\* Variant: the difference of the counts is used with its sign.
VariancePercentageSigned(prev, cur) ==
  IF prev > 0 THEN [num |-> (cur - prev) * 100, den |-> prev]
  ELSE [num |-> 0, den |-> 1]

\* variance / previous_count * 100 as an exact rational, 0 when
\* previous_count is not positive.
VariancePercentage(prev, cur) ==
  IF prev > 0 THEN [num |-> Abs(cur - prev) * 100, den |-> prev]
  ELSE [num |-> 0, den |-> 1]

\* The floating-point value that is not a number: every ordering comparison
\* with it is false.
NotANumber == 0 - 1000

\* a < b on the values a threshold can take.
Less(a, b) == a # NotANumber /\ b # NotANumber /\ a < b

\* Variant: the threshold itself does not trigger the alert.
ThresholdExceededStrict(pct, thr) == thr # NotANumber /\ pct.num > thr * pct.den

\* variance_percentage >= DATA_VARIANCE_THRESHOLD
ThresholdExceeded(pct, thr) == thr # NotANumber /\ pct.num >= thr * pct.den

\* Settings.validate_variance_threshold: TRUE when the value is returned,
\* FALSE when ValueError is raised, which is when v < 0 or v > 100.
validate_variance_threshold(v) ==
  ~(Less(v, MinThreshold) \/ Less(MaxThreshold, v))

\* Variant: the alert is recorded as sent whenever it was attempted.
validate_and_alert_assume_sent(prev, cur, thr, sent) ==
  LET variance_percentage == VariancePercentage(prev, cur)
      threshold_exceeded == ThresholdExceeded(variance_percentage, thr)
  IN [variance_percentage |-> variance_percentage,
      threshold_exceeded |-> threshold_exceeded,
      email_sent |-> threshold_exceeded]

\* sent: what send_data_variance_alert returns when it is called.
validate_and_alert(prev, cur, thr, sent) ==
  LET variance_percentage == VariancePercentage(prev, cur)
      threshold_exceeded == ThresholdExceeded(variance_percentage, thr)
  IN [variance_percentage |-> variance_percentage,
      threshold_exceeded |-> threshold_exceeded,
      email_sent |-> IF threshold_exceeded THEN sent ELSE FALSE]

ValidateAndAlert ==
  /\ pc = "validate"
  /\ started' = Append(started, "validate")
  /\ \E cntOk \in BOOLEAN, sent \in BOOLEAN :
       IF cntOk
       THEN LET cur == get_table_count(tables, main_table)
                vr == validate_and_alert(previous_count, cur, threshold, sent)
            IN /\ current_count' = cur
               /\ variance_result' = vr
               /\ alertsAttempted' =
                    IF vr.threshold_exceeded THEN alertsAttempted + 1 ELSE alertsAttempted
               /\ alertOutcome' =
                    IF ~vr.threshold_exceeded THEN alertOutcome
                    ELSE IF sent THEN "delivered" ELSE "failed"
               /\ returned' = Append(returned, "validate")
               /\ pc' = NextStep("validate")
               /\ error' = error
       ELSE /\ current_count' = current_count
            /\ variance_result' = variance_result
            /\ alertsAttempted' = alertsAttempted
            /\ alertOutcome' = alertOutcome
            /\ returned' = returned
            /\ pc' = "failed"
            /\ error' = [prefix |-> "", cause |-> "Count operation failed"]
  /\ UNCHANGED <<tables, staged, threshold, previous_count, df, df_transformed,
                 result, runs, mainTruncCalls, mainWriteCalls, mainEmptied,
                 notes, origRead, bkRead, startMain, startStaged, finalRead, atRisk>>
  /\ clock' = clock + 1
  /\ UNCHANGED start_time
  /\ UNCHANGED appvars

(***************************************************************************)
(* run_jcap_pa_etl: completion notification and returned result            *)
(***************************************************************************)
\* Variant: the completion notification always reports a success.
NotifiedStatusAlwaysSuccess(failed) == "Success"

\* The status handed to send_job_completion_notification on each path.
NotifiedStatus(failed) == IF failed THEN "Failed" ELSE "Success"

\* Variant: the result reports the number of rows handed to the write.
CountedRowsWritten(current, written) == written

\* rows_processed of the Success result: the count of the production table
\* read after the load, not the number of rows handed to the write.
CountedRows(current, written) == current

SuccessResult ==
  [status |-> "Success",
   rows_processed |-> CountedRows(current_count, df_transformed.n),
   start_time |-> start_time,
   end_time |-> clock,
   duration_seconds |-> clock - start_time,
   previous_count |-> previous_count,
   current_count |-> current_count,
   variance_percentage |-> variance_result.variance_percentage,
   variance_threshold_exceeded |-> variance_result.threshold_exceeded,
   email_sent |-> variance_result.email_sent]

FailedResult ==
  [status |-> "Failed",
   error |-> error,
   start_time |-> start_time,
   end_time |-> clock,
   duration_seconds |-> clock - start_time]

CompleteSuccess ==
  /\ pc = "validated"
  /\ \E delivered \in BOOLEAN :
       notes' = Append(notes, [status |-> NotifiedStatus(FALSE), delivered |-> delivered])
  /\ result' = SuccessResult
  /\ pc' = "done"
  /\ UNCHANGED <<tables, staged, threshold, previous_count, df, df_transformed,
                 current_count, variance_result, error, runs, started, returned,
                 mainTruncCalls, mainWriteCalls, mainEmptied, alertsAttempted,
                 origRead, bkRead, startMain, startStaged, finalRead, atRisk>>
  /\ clock' = clock + 1
  /\ UNCHANGED <<start_time, alertOutcome>>
  /\ UNCHANGED appvars

\* Variant: the production table is restored from the backup table.
TablesRestoredFromBackup(tbls) ==
  [tbls EXCEPT ![main_table] = tbls[backup_table]]

\* The tables after the except clause of run_jcap_pa_etl: it notifies and
\* builds the result, and calls nothing that reads or writes a table.
TablesAfterFailure(tbls) == tbls

CompleteFailed ==
  /\ pc = "failed"
  /\ \E delivered \in BOOLEAN :
       notes' = Append(notes, [status |-> NotifiedStatus(TRUE), delivered |-> delivered])
  /\ result' = FailedResult
  /\ pc' = "done"
  /\ tables' = TablesAfterFailure(tables)
  /\ UNCHANGED <<staged, threshold, previous_count, df, df_transformed,
                 current_count, variance_result, error, runs, started, returned,
                 mainTruncCalls, mainWriteCalls, mainEmptied, alertsAttempted,
                 origRead, bkRead, startMain, startStaged, finalRead, atRisk>>
  /\ clock' = clock + 1
  /\ UNCHANGED <<start_time, alertOutcome>>
  /\ UNCHANGED appvars

Next ==
  \/ StartRun
  \/ CreateAndValidateBackup
  \/ ExtractCdpData
  \/ TransformData
  \/ StageToS3
  \/ LoadToDestination
  \/ ValidateAndAlert
  \/ CompleteSuccess
  \/ CompleteFailed

Spec == Init /\ [][Next]_vars

(***************************************************************************)
(* The variance check on its own: _validate_and_alert applied to arbitrary *)
(* non-negative counts.                                                    *)
(***************************************************************************)
InitVariance ==
  /\ tables = [t \in {main_table, backup_table} |-> Empty]
  /\ staged = Absent
  /\ threshold \in Thresholds
  /\ pc = "call"
  /\ runs = 0
  /\ startMain = Empty
  /\ startStaged = Absent
  /\ atRisk = Empty
  /\ previous_count \in VarCounts
  /\ current_count \in VarCounts
  /\ df = Empty
  /\ df_transformed = Empty
  /\ variance_result = NoVariance
  /\ error = NoError
  /\ result = NoResult
  /\ started = <<>>
  /\ returned = <<>>
  /\ mainTruncCalls = 0
  /\ mainWriteCalls = 0
  /\ mainEmptied = FALSE
  /\ alertsAttempted = 0
  /\ notes = <<>>
  /\ origRead = NoCount
  /\ bkRead = NoCount
  /\ finalRead = NoCount
  /\ alertOutcome = "none"
  /\ clock = 0
  /\ start_time = 0
  /\ AppIdle

CallValidateAndAlert ==
  /\ pc = "call"
  /\ \E sent \in BOOLEAN :
       LET vr == validate_and_alert(previous_count, current_count, threshold, sent)
       IN /\ variance_result' = vr
          /\ alertsAttempted' =
               IF vr.threshold_exceeded THEN alertsAttempted + 1 ELSE alertsAttempted
          /\ alertOutcome' =
               IF ~vr.threshold_exceeded THEN alertOutcome
               ELSE IF sent THEN "delivered" ELSE "failed"
  /\ pc' = "returned"
  /\ UNCHANGED <<tables, staged, threshold, previous_count, df, df_transformed,
                 current_count, error, result, runs, started, returned,
                 mainTruncCalls, mainWriteCalls, mainEmptied, notes, origRead,
                 bkRead, startMain, startStaged, finalRead, atRisk>>
  /\ clock' = clock + 1
  /\ UNCHANGED start_time
  /\ UNCHANGED appvars

NextVariance == CallValidateAndAlert

SpecVariance == InitVariance /\ [][NextVariance]_vars

(***************************************************************************)
(* The job dispatcher (JobService), the entry point and the continuous-run *)
(* supervisor (app.py)                                                     *)
(***************************************************************************)
\* Bounds of the process model.
MaxMissing == 2
MaxSupRuns == 2
MaxSimpleRuns == 4
MaxDay == 2
MaxInterval == 2

DefaultLimit == 10
SuccessRateFloor == 50
InterruptExitCode == 130

\* The variables of the production workflow and of the logical clock.
runvars == <<tables, staged, threshold,
             pc, previous_count, df, df_transformed, current_count, variance_result,
             error, result,
             runs, started, returned, mainTruncCalls, mainWriteCalls, mainEmptied,
             alertsAttempted, notes, origRead, bkRead, startMain, startStaged,
             finalRead, atRisk, alertOutcome, clock, start_time>>

\* supported_job_types, and one type identifier that is not registered.
JobTypes == {"control_m_poc_etl", "jcap_pa_etl"}
AllTypes == JobTypes \cup {"simple_etl"}

\* The settings validate_for_job_type requires for jcap_pa_etl, in the order
\* it tests them.
RequiredFields ==
  <<"CDP_REDSHIFT_HOST", "CDP_REDSHIFT_DATABASE", "CDP_REDSHIFT_USER",
    "CDP_REDSHIFT_PASSWORD", "JCAP_REDSHIFT_HOST", "JCAP_REDSHIFT_DATABASE",
    "JCAP_REDSHIFT_USER", "JCAP_REDSHIFT_PASSWORD", "S3_BUCKET", "S3_IAM_ROLE">>

IsMissing(empty, f) == f \in empty

\* Variant: the validation stops at the first empty field.
validate_for_job_type_first(job_type, empty) ==
  IF job_type = "jcap_pa_etl"
  THEN LET m == SelectSeq(RequiredFields, LAMBDA f : IsMissing(empty, f))
       IN IF m = <<>> THEN <<>> ELSE <<Head(m)>>
  ELSE <<>>

\* The fields validate_for_job_type reports; it raises ValueError when the
\* list is not empty.
validate_for_job_type(job_type, empty) ==
  IF job_type = "jcap_pa_etl"
  THEN SelectSeq(RequiredFields, LAMBDA f : IsMissing(empty, f))
  ELSE <<>>

\* The configurations a caller can supply.  A name is a sequence of text
\* pieces, so that a defaulted name can be told from a given one.
ConfigWith(keys, tp) ==
  [k \in keys |-> CASE k = "id" -> "j1"
                    [] k = "name" -> <<"nightly">>
                    [] OTHER -> tp]

\* Inline JSON and files may hold any keys and any type string; the argument
\* parser only accepts the registered types for --job-type and has no option
\* for the name.
SuppliedConfigs(by) ==
  IF by = "args"
  THEN {ConfigWith(keys, tp) : keys \in SUBSET {"id", "type"}, tp \in JobTypes}
  ELSE {ConfigWith(keys, tp) : keys \in SUBSET {"id", "name", "type"}, tp \in AllTypes}

\* create_job_config_from_args; None is the configuration with no keys.
create_job_config_from_args(args) ==
  IF "type" \notin DOMAIN args \/ "id" \notin DOMAIN args
  THEN NoConfig
  ELSE IF args.type = "control_m_poc_etl"
       THEN [id |-> args.id, name |-> <<"title", args.type, " - ", args.id>>,
             type |-> args.type, limit |-> DefaultLimit]
       ELSE [id |-> args.id, name |-> <<"title", args.type, " - ", args.id>>,
             type |-> args.type]

\* Variant: only the type is required of a configuration.
MissingFieldsTypeOnly(cfg) == SelectSeq(<<"type">>, LAMBDA f : f \notin DOMAIN cfg)

\* main: the required fields a configuration lacks.
MissingFields(cfg) == SelectSeq(<<"type", "id">>, LAMBDA f : f \notin DOMAIN cfg)

\* execute_job: the identity of the job, with its defaults.
JobId(cfg) == IF "id" \in DOMAIN cfg THEN cfg.id ELSE "unknown"
JobName(cfg) == IF "name" \in DOMAIN cfg THEN cfg.name ELSE <<"job-", JobId(cfg)>>

\* Variant: a type that is not registered falls back to the default type.
JobTypeLenient(cfg) ==
  IF "type" \in DOMAIN cfg /\ cfg.type \in JobTypes THEN cfg.type ELSE "control_m_poc_etl"

JobType(cfg) == IF "type" \in DOMAIN cfg THEN cfg.type ELSE "control_m_poc_etl"


UnknownTypeError(job_type) == [prefix |-> "Unknown job type", cause |-> job_type]
ConfigurationError(job_type, missing) ==
  [prefix |-> "Configuration validation failed",
   cause |-> "Missing required configuration",
   job_type |-> job_type,
   missing |-> missing]
EscapedError == [prefix |-> "", cause |-> "unhandled"]

\* Variant: the error result never carries a duration.
create_error_result_no_duration(job_id, job_name, job_type, error_message, st, en, duration) ==
  [status |-> "Failed", job_id |-> job_id, job_name |-> job_name,
   job_type |-> job_type, error |-> error_message, start_time |-> st,
   end_time |-> en, duration_seconds |-> 0, rows_processed |-> 0]

create_error_result(job_id, job_name, job_type, error_message, st, en, duration) ==
  [status |-> "Failed", job_id |-> job_id, job_name |-> job_name,
   job_type |-> job_type, error |-> error_message, start_time |-> st,
   end_time |-> en, duration_seconds |-> duration, rows_processed |-> 0]

\* dict.update
Update(r, m) ==
  [k \in DOMAIN r \cup DOMAIN m |-> IF k \in DOMAIN m THEN m[k] ELSE r[k]]

\* Variant: the identity is merged under the configuration's own key names.
JobMetadataConfigKeys(cfg) ==
  [id |-> JobId(cfg), name |-> JobName(cfg), type |-> JobType(cfg),
   environment |-> IF JobType(cfg) = "jcap_pa_etl" THEN "Production" ELSE "POC"]

\* The metadata execute_job merges into a handler's result.
JobMetadata(cfg) ==
  [job_id |-> JobId(cfg), job_name |-> JobName(cfg), job_type |-> JobType(cfg),
   environment |-> IF JobType(cfg) = "jcap_pa_etl" THEN "Production" ELSE "POC"]

\* The numbers of rows the source view of the simple job may hold.
PocSourceRows == {0, MaxCount, 1000}

\* The process as started from the command line: the production table holds
\* 1000 rows, the backup and the staging path have not been written.  The
\* continuous mode is explored for configurations built from the arguments.
InitApp ==
  /\ tables = [t \in {main_table, backup_table} |->
                 IF t = main_table THEN Content("prod", 1000) ELSE Empty]
  /\ staged = Absent
  /\ threshold = DefaultThreshold
  /\ pc = "idle"
  /\ runs = 0
  /\ startMain = tables[main_table]
  /\ startStaged = staged
  /\ atRisk = Empty
  /\ RunInit
  /\ app_pc = "main"
  /\ supplied_by \in {"args", "json", "file"}
  /\ job_config \in SuppliedConfigs(supplied_by)
  /\ continuous \in (IF supplied_by = "args" THEN BOOLEAN ELSE {FALSE})
  /\ interval \in (IF continuous THEN {0, MaxInterval} ELSE {0})
  /\ settings_empty = {}
  /\ shutdown_requested = FALSE
  /\ stats = NoStats
  /\ sleep_left = 0
  /\ job_result = NoResult
  /\ job_start = 0
  /\ exit_code = NoCount
  /\ handlerCalls = 0
  /\ poc_dest = Empty
  /\ poc_source \in (IF JobType(job_config) = "control_m_poc_etl"
                      THEN PocSourceRows ELSE {0})
  /\ last_rows = NoCount
  /\ run_config = NoConfig
  /\ today = 1
  /\ call_stack = <<>>
  /\ trunc_pc = "idle"

\* Variant: a signal that arrives during a run ends the run with an exception.
ResumeAbortsRun(at) ==
  IF at \in {"exec", "handler_call", "in_handler"} THEN "raised" ELSE at

\* Where the program continues after signal_handler has run: the handler
\* returns without raising, so the interrupted statement goes on.
Resume(at) == at

\* signal_handler, installed by main's first statements for both signals: it
\* may run between any two steps of the process and only sets the flag,
\* whichever signal arrived.
SignalHandler ==
  /\ app_pc \notin {"none", "exited"}
  /\ ~shutdown_requested
  /\ shutdown_requested' = TRUE
  /\ app_pc' = Resume(app_pc)
  /\ UNCHANGED <<poc_source, last_rows, run_config, today, call_stack, trunc_pc>>
  /\ UNCHANGED <<job_config, supplied_by, continuous, interval, settings_empty,
                 stats, sleep_left, job_result, job_start, exit_code, handlerCalls,
                 poc_dest>>
  /\ UNCHANGED runvars

\* main, up to the choice of the execution mode: the settings are loaded,
\* which validates the configured threshold, the configuration is read from the arguments, the inline JSON or the file, and
\* a configuration that lacks a required field is refused with exit code 1.
Main ==
  /\ app_pc = "main"
  /\ \E settings_ok \in BOOLEAN, parse_ok \in BOOLEAN :
       LET cfg == IF supplied_by = "args"
                  THEN create_job_config_from_args(job_config)
                  ELSE job_config
           refused == \/ ~settings_ok
                      \/ ~validate_variance_threshold(threshold)
                      \/ supplied_by # "args" /\ ~parse_ok
                      \/ supplied_by = "args" /\ DOMAIN cfg = {}
                      \/ MissingFields(cfg) # <<>>
       IN IF refused
          THEN /\ app_pc' = "exited"
               /\ exit_code' = 1
               /\ UNCHANGED job_config
          ELSE /\ app_pc' = IF continuous THEN "sup_loop" ELSE "exec"
               /\ job_config' = cfg
               /\ UNCHANGED exit_code
  /\ stats' = NoStats
  /\ UNCHANGED <<poc_source, last_rows, run_config, today, call_stack, trunc_pc>>
  /\ UNCHANGED <<supplied_by, continuous, interval, settings_empty, shutdown_requested,
                 sleep_left, job_result, job_start, handlerCalls, poc_dest>>
  /\ UNCHANGED runvars

\* The sets of required settings that may be found empty when the settings
\* are loaded.
EmptySettings ==
  {S \in SUBSET {RequiredFields[i] : i \in DOMAIN RequiredFields} :
     Cardinality(S) <= MaxMissing}

\* execute_single_job and execute_job up to the handler call: the type is
\* resolved, then get_settings builds the settings anew from the environment
\* and they are validated for the type.  Only ValueError is caught around the
\* settings; anything else they raise leaves execute_job.  Time is counted
\* from the dispatch.
ExecuteJob ==
  /\ app_pc = "exec"
  /\ clock' = 0
  /\ LET job_id == JobId(job_config)
         job_name == JobName(job_config)
         job_type == JobType(job_config)
     IN IF job_type \notin JobTypes
        THEN /\ job_result' = create_error_result(job_id, job_name, job_type,
                                                  UnknownTypeError(job_type), 0, 0, 0)
             /\ app_pc' = "returned"
             /\ UNCHANGED <<job_start, settings_empty>>
        ELSE \E raises \in BOOLEAN, empty \in EmptySettings :
               LET missing == validate_for_job_type(job_type, empty)
               IN IF raises
                  THEN /\ empty = {}
                       /\ job_result' = NoResult
                       /\ app_pc' = "raised"
                       /\ UNCHANGED <<job_start, settings_empty>>
                  ELSE IF missing # <<>>
                  THEN /\ job_result' = create_error_result(job_id, job_name, job_type,
                                          ConfigurationError(job_type, missing), 0, 0, 0)
                       /\ app_pc' = "returned"
                       /\ settings_empty' = empty
                       /\ UNCHANGED job_start
                  ELSE /\ job_result' = NoResult
                       /\ app_pc' = "handler_call"
                       /\ settings_empty' = empty
                       /\ job_start' = 0
  /\ UNCHANGED <<poc_source, last_rows, run_config, today, call_stack, trunc_pc>>
  /\ UNCHANGED <<job_config, supplied_by, continuous, interval,
                 shutdown_requested, stats, sleep_left, exit_code, handlerCalls, poc_dest>>
  /\ UNCHANGED <<tables, staged, threshold,
                 pc, previous_count, df, df_transformed, current_count, variance_result,
                 error, result,
                 runs, started, returned, mainTruncCalls, mainWriteCalls, mainEmptied,
                 alertsAttempted, notes, origRead, bkRead, startMain, startStaged,
                 finalRead, atRisk, alertOutcome, start_time>>

\* _execute_jcap_pa_etl: the production handler is entered; it reads its own
\* start time as its first statement.
InvokeProduction ==
  /\ app_pc = "handler_call"
  /\ JobType(job_config) = "jcap_pa_etl"
  /\ EnterRun
  /\ clock' = clock + 1
  /\ start_time' = clock + 1
  /\ app_pc' = "in_handler"
  /\ handlerCalls' = handlerCalls + 1
  /\ UNCHANGED <<poc_source, last_rows, run_config, today, call_stack, trunc_pc>>
  /\ UNCHANGED <<job_config, supplied_by, continuous, interval, settings_empty,
                 shutdown_requested, stats, sleep_left, job_result, job_start, exit_code,
                 poc_dest>>

\* The production handler returned its result; execute_job merges the job's
\* identity into it.
HandlerReturn ==
  /\ app_pc = "in_handler"
  /\ pc = "done"
  /\ job_result' = Update(result, JobMetadata(job_config))
  /\ app_pc' = "returned"
  /\ UNCHANGED <<poc_source, last_rows, run_config, today, call_stack, trunc_pc>>
  /\ UNCHANGED <<job_config, supplied_by, continuous, interval, settings_empty,
                 shutdown_requested, stats, sleep_left, job_start, exit_code, handlerCalls,
                 poc_dest>>
  /\ UNCHANGED runvars

\* An exception leaves the production handler from its own except block,
\* before the failure notification; execute_job converts it.
HandlerRaises ==
  /\ app_pc = "in_handler"
  /\ pc = "failed"
  /\ pc' = "escaped"
  /\ clock' = clock + 1
  /\ job_result' = create_error_result(JobId(job_config), JobName(job_config),
                                       JobType(job_config), EscapedError,
                                       job_start, clock + 1, (clock + 1) - job_start)
  /\ app_pc' = "returned"
  /\ UNCHANGED <<poc_source, last_rows, run_config, today, call_stack, trunc_pc>>
  /\ UNCHANGED <<job_config, supplied_by, continuous, interval, settings_empty,
                 shutdown_requested, stats, sleep_left, job_start, exit_code, handlerCalls,
                 poc_dest>>
  /\ UNCHANGED <<tables, staged, threshold,
                 previous_count, df, df_transformed, current_count, variance_result,
                 error, result,
                 runs, started, returned, mainTruncCalls, mainWriteCalls, mainEmptied,
                 alertsAttempted, notes, origRead, bkRead, startMain, startStaged,
                 finalRead, atRisk, alertOutcome, start_time>>

(***************************************************************************)
(* run_control_m_poc_etl (services/etl_service.py)                         *)
(***************************************************************************)
Min(a, b) == IF a <= b THEN a ELSE b
Limit(cfg) == IF "limit" \in DOMAIN cfg THEN cfg.limit ELSE DefaultLimit

\* read_table: the number of rows of the frame it returns; a limit is applied
\* only when it is positive.
read_table(source_rows, limit) ==
  IF limit > 0 THEN Min(source_rows, limit) ELSE source_rows

\* Variant: the rows reported are counted in the destination table.
RowsReportedFromDestination(row_count, dest) == dest.n

\* rows_processed of a Success result: the count of the frame that was
\* written, not the count of the destination after the write.
RowsReported(row_count, dest) == row_count

PocSuccessResult(row_count, st, en) ==
  [status |-> "Success",
   rows_processed |-> row_count,
   start_time |-> st,
   end_time |-> en,
   duration_seconds |-> en - st,
   source_table |-> "dna_actln_dwh.vw_patients_opsumit_cap",
   destination_table |-> "dna_actln_dwh.ControlM_New_test"]

PocFailedResult(err, st, en) ==
  [status |-> "Failed",
   error |-> err,
   start_time |-> st,
   end_time |-> en,
   duration_seconds |-> en - st]

\* The simple job as one step: at most `limit` rows of the source view are
\* read and appended to the destination; the source is not written.  The read or the write may raise (a raising write may have
\* persisted the rows); the handler converts that into a Failed result, unless
\* the exception leaves the handler and execute_job converts it.
RunControlMPocEtl ==
  /\ app_pc = "handler_call"
  /\ JobType(job_config) = "control_m_poc_etl"
  /\ \E outcome \in {"ok", "read_failed", "write_failed", "escaped"},
        partial \in BOOLEAN :
       LET row_count == read_table(poc_source, Limit(job_config))
           st == clock + 1
           en == clock + 2
           written == outcome = "ok" \/ (outcome = "write_failed" /\ partial)
           dest == IF written
                   THEN AppendRows(poc_dest, Content("poc", row_count), row_count)
                   ELSE poc_dest
           res == CASE outcome = "ok" ->
                         PocSuccessResult(RowsReported(row_count, dest), st, en)
                    [] outcome = "read_failed" ->
                         PocFailedResult([prefix |-> "", cause |-> "read_table"], st, en)
                    [] OTHER ->
                         PocFailedResult([prefix |-> "", cause |-> "write_table"], st, en)
       IN /\ poc_dest' = dest
          /\ job_result' =
               IF outcome = "escaped"
               THEN create_error_result(JobId(job_config), JobName(job_config),
                                        JobType(job_config), EscapedError,
                                        job_start, en, en - job_start)
               ELSE Update(res, JobMetadata(job_config))
  /\ clock' = clock + 2
  /\ handlerCalls' = handlerCalls + 1
  /\ app_pc' = "returned"
  /\ UNCHANGED <<poc_source, last_rows, run_config, today, call_stack, trunc_pc>>
  /\ UNCHANGED <<job_config, supplied_by, continuous, interval, settings_empty,
                 shutdown_requested, stats, sleep_left, job_start, exit_code>>
  /\ UNCHANGED <<tables, staged, threshold,
                 pc, previous_count, df, df_transformed, current_count, variance_result,
                 error, result,
                 runs, started, returned, mainTruncCalls, mainWriteCalls, mainEmptied,
                 alertsAttempted, notes, origRead, bkRead, startMain, startStaged,
                 finalRead, atRisk, alertOutcome, start_time>>

\* Variant: a run that returned any result exits with 0.
SingleExitCodeAnyResult(res, raised) == IF raised THEN 1 ELSE 0

\* The exit code of main in single execution mode: 0 for a result whose
\* status is 'Success', 1 for any other result and for an exception.
SingleExitCode(res, raised) ==
  IF ~raised /\ res.status = "Success" THEN 0 ELSE 1

(***************************************************************************)
(* main: single execution; run_continuous_jobs                             *)
(***************************************************************************)
\* Single execution: exit code 0 for a Success result, 1 for a Failed result
\* or for an exception that left execute_job.
SingleFinish ==
  /\ app_pc \in {"returned", "raised"}
  /\ ~continuous
  /\ exit_code' = SingleExitCode(job_result, app_pc = "raised")
  /\ app_pc' = "exited"
  /\ UNCHANGED <<poc_source, last_rows, run_config, today, call_stack, trunc_pc>>
  /\ UNCHANGED <<job_config, supplied_by, continuous, interval, settings_empty,
                 shutdown_requested, stats, sleep_left, job_result, job_start,
                 handlerCalls, poc_dest>>
  /\ UNCHANGED runvars

\* Variant: the loop also ends at the first run that did not succeed.
KeepRunningUntilFailure(flag, st) == ~flag /\ st.failed_runs = 0

\* Variant: the flag is not consulted.
KeepRunningAlways(flag, st) == TRUE

\* Variant: the test of the flag is inverted.
KeepRunningInverted(flag, st) == flag

\* Variant: the flag is tested only after the first run.
KeepRunningAfterFirstRun(flag, st) == ~flag \/ st.total_runs = 0

\* The condition of the supervisor's loop: only the shutdown flag is tested,
\* the counters are not.
KeepRunning(flag, st) == ~flag

\* The number of runs explored, by the cost of a run of the job type.
RunCap(cfg) ==
  IF JobType(cfg) = "control_m_poc_etl" THEN MaxSimpleRuns ELSE MaxSupRuns

\* Variant: the wait runs to its end whatever the flag says.
WaitOverIgnoresFlag(left, flag) == left = 0

\* The wait between two runs ends when its seconds are used up or, tested
\* before each second, when shutdown has been requested.
WaitOver(left, flag) == left = 0 \/ flag

\* Variant: the counters are rebuilt at the start of every run.
BeginRunReset(st) == [NoStats EXCEPT !.total_runs = st.total_runs + 1]

BeginRun(st) == [st EXCEPT !.total_runs = @ + 1]

RowsProcessed(res) == IF "rows_processed" \in DOMAIN res THEN res.rows_processed ELSE 0

\* Variant: a run that ends in an exception is not counted.
TallyDropsException(st, res, raised) ==
  IF raised THEN st
  ELSE IF res.status = "Success"
  THEN [st EXCEPT !.successful_runs = @ + 1,
                  !.total_rows_processed = @ + RowsProcessed(res)]
  ELSE [st EXCEPT !.failed_runs = @ + 1]

\* Variant: only successful runs are recorded.
TallySuccessOnly(st, res, raised) ==
  IF ~raised /\ res.status = "Success"
  THEN [st EXCEPT !.successful_runs = @ + 1,
                  !.total_rows_processed = @ + RowsProcessed(res)]
  ELSE st

\* Variant: the row total is replaced by the rows of the latest successful
\* run.
TallyLatestRows(st, res, raised) ==
  IF raised THEN [st EXCEPT !.failed_runs = @ + 1]
  ELSE IF res.status = "Success"
  THEN [st EXCEPT !.successful_runs = @ + 1,
                  !.total_rows_processed = RowsProcessed(res)]
  ELSE [st EXCEPT !.failed_runs = @ + 1]

\* The outcome of a run as run_continuous_jobs counts it.
Tally(st, res, raised) ==
  IF raised THEN [st EXCEPT !.failed_runs = @ + 1]
  ELSE IF res.status = "Success"
  THEN [st EXCEPT !.successful_runs = @ + 1,
                  !.total_rows_processed = @ + RowsProcessed(res)]
  ELSE [st EXCEPT !.failed_runs = @ + 1]

\* Variant: a rate of exactly the floor is not enough.
SuccessRateOkStrict(st) ==
  /\ st.total_runs > 0
  /\ st.successful_runs * 100 > SuccessRateFloor * st.total_runs

\* success_rate >= 50, the rate being 0 when no run was started.
SuccessRateOk(st) ==
  /\ st.total_runs > 0
  /\ st.successful_runs * 100 >= SuccessRateFloor * st.total_runs

\* The exit code of main in continuous mode.
ContinuousExitCode(st) == IF SuccessRateOk(st) THEN 0 ELSE 1

\* while not shutdown_requested: the next run is counted and started.
SupStartRun ==
  /\ app_pc = "sup_loop"
  /\ KeepRunning(shutdown_requested, stats)
  /\ stats.total_runs < RunCap(job_config)
  /\ stats' = BeginRun(stats)
  /\ app_pc' = "exec"
  /\ UNCHANGED <<poc_source, last_rows, run_config, today, call_stack, trunc_pc>>
  /\ UNCHANGED <<job_config, supplied_by, continuous, interval, settings_empty,
                 shutdown_requested, sleep_left, job_result, job_start, exit_code,
                 handlerCalls, poc_dest>>
  /\ UNCHANGED runvars

\* The frames of execute_job and of the handler are gone once the call has
\* returned: their locals, and the bookkeeping of the run, are fresh again.
\* The tables and the staging path keep what the run left in them.
ForgetRun ==
  /\ pc' = "idle"
  /\ previous_count' = NoCount
  /\ df' = Empty
  /\ df_transformed' = Empty
  /\ current_count' = NoCount
  /\ variance_result' = NoVariance
  /\ error' = NoError
  /\ result' = NoResult
  /\ started' = <<>>
  /\ returned' = <<>>
  /\ mainTruncCalls' = 0
  /\ mainWriteCalls' = 0
  /\ mainEmptied' = FALSE
  /\ alertsAttempted' = 0
  /\ alertOutcome' = "none"
  /\ notes' = <<>>
  /\ origRead' = NoCount
  /\ bkRead' = NoCount
  /\ finalRead' = NoCount
  /\ startMain' = tables[main_table]
  /\ startStaged' = staged
  /\ clock' = 0
  /\ start_time' = 0
  /\ job_start' = 0
  /\ job_result' = NoResult
  /\ settings_empty' = {}
  /\ UNCHANGED <<tables, staged, threshold, atRisk, runs>>

\* The run ended; it is counted, and the wait for the next run begins unless
\* the shutdown was requested.
SupTally ==
  /\ app_pc \in {"returned", "raised"}
  /\ continuous
  /\ stats' = Tally(stats, job_result, app_pc = "raised")
  /\ IF shutdown_requested
     THEN app_pc' = "sup_loop" /\ sleep_left' = 0
     ELSE app_pc' = "sup_wait" /\ sleep_left' = interval
  /\ ForgetRun
  /\ last_rows' = IF /\ app_pc = "returned"
                     /\ JobType(job_config) = "control_m_poc_etl"
                     /\ job_result.status = "Success"
                  THEN job_result.rows_processed
                  ELSE last_rows
  /\ handlerCalls' = 0
  /\ UNCHANGED <<poc_source, run_config, today, call_stack, trunc_pc>>
  /\ UNCHANGED <<job_config, supplied_by, continuous, interval,
                 shutdown_requested, exit_code, poc_dest>>

\* The wait loop between two runs: before each second the flag is tested; the
\* wait is skipped altogether when shutdown was requested during the run.
SleepTick ==
  /\ app_pc = "sup_wait"
  /\ IF WaitOver(sleep_left, shutdown_requested)
     THEN app_pc' = "sup_loop" /\ sleep_left' = 0
     ELSE app_pc' = "sup_sleeping" /\ sleep_left' = sleep_left
  /\ UNCHANGED <<poc_source, last_rows, run_config, today, call_stack, trunc_pc>>
  /\ UNCHANGED <<job_config, supplied_by, continuous, interval, settings_empty,
                 shutdown_requested, stats, job_result, job_start, exit_code,
                 handlerCalls, poc_dest>>
  /\ UNCHANGED runvars

\* time.sleep(1): one second of the wait passes; a signal that arrives
\* meanwhile runs its handler and the second is slept to its end.
SleepOneSecond ==
  /\ app_pc = "sup_sleeping"
  /\ sleep_left' = sleep_left - 1
  /\ app_pc' = "sup_wait"
  /\ UNCHANGED <<poc_source, last_rows, run_config, today, call_stack, trunc_pc>>
  /\ UNCHANGED <<job_config, supplied_by, continuous, interval, settings_empty,
                 shutdown_requested, stats, job_result, job_start, exit_code,
                 handlerCalls, poc_dest>>
  /\ UNCHANGED runvars

\* The loop has ended: the final statistics are logged and main turns the
\* success rate into the exit code.
SupFinish ==
  /\ app_pc = "sup_loop"
  /\ ~KeepRunning(shutdown_requested, stats)
  /\ exit_code' = ContinuousExitCode(stats)
  /\ app_pc' = "exited"
  /\ UNCHANGED <<poc_source, last_rows, run_config, today, call_stack, trunc_pc>>
  /\ UNCHANGED <<job_config, supplied_by, continuous, interval, settings_empty,
                 shutdown_requested, stats, sleep_left, job_result, job_start,
                 handlerCalls, poc_dest>>
  /\ UNCHANGED runvars

NextApp ==
  \/ SignalHandler
  \/ Main
  \/ ExecuteJob
  \/ InvokeProduction
  \/ CreateAndValidateBackup
  \/ ExtractCdpData
  \/ TransformData
  \/ StageToS3
  \/ LoadToDestination
  \/ ValidateAndAlert
  \/ CompleteSuccess
  \/ CompleteFailed
  \/ HandlerReturn
  \/ HandlerRaises
  \/ RunControlMPocEtl
  \/ SingleFinish
  \/ SupStartRun
  \/ SupTally
  \/ SleepTick
  \/ SleepOneSecond
  \/ SupFinish

SpecApp == InitApp /\ [][NextApp]_vars

\* The process started in continuous mode with a wait of MaxInterval seconds
\* between two runs.
InitSup ==
  /\ InitApp
  /\ continuous
  /\ interval = MaxInterval

\* A step of the program in continuous mode, as opposed to the arrival of a
\* signal.
SupervisorStep ==
  \/ Main
  \/ ExecuteJob
  \/ InvokeProduction
  \/ CreateAndValidateBackup
  \/ ExtractCdpData
  \/ TransformData
  \/ StageToS3
  \/ LoadToDestination
  \/ ValidateAndAlert
  \/ CompleteSuccess
  \/ CompleteFailed
  \/ HandlerReturn
  \/ HandlerRaises
  \/ RunControlMPocEtl
  \/ SupStartRun
  \/ SupTally
  \/ SleepTick
  \/ SleepOneSecond
  \/ SupFinish

NextSup ==
  \/ SignalHandler
  \/ Main
  \/ ExecuteJob
  \/ InvokeProduction
  \/ CreateAndValidateBackup
  \/ ExtractCdpData
  \/ TransformData
  \/ StageToS3
  \/ LoadToDestination
  \/ ValidateAndAlert
  \/ CompleteSuccess
  \/ CompleteFailed
  \/ HandlerReturn
  \/ HandlerRaises
  \/ RunControlMPocEtl
  \/ SupStartRun
  \/ SupTally
  \/ SleepTick
  \/ SleepOneSecond
  \/ SupFinish

\* The supervisor when every statement it reaches is eventually completed:
\* every call into a collaborator returns or raises, and every sleep ends.
\* Nothing is assumed about the arrival of signals.
LiveSpecSup == InitSup /\ [][NextSup]_vars /\ WF_vars(SupervisorStep)

\* ---------------------------------------------------------------------------
\* The load date of a run.  A date is a day number from 1; NoLoadDate stands
\* for the values the test 'not job_config.get("load_date")' takes for absent:
\* None, which the argument parser leaves when --load-date is not given, and
\* the empty text.

NoLoadDate == 0
Days == 1 .. MaxDay

WithLoadDate(cfg, d) ==
  [k \in DOMAIN cfg \cup {"load_date"} |-> IF k = "load_date" THEN d ELSE cfg[k]]

\* The configurations main accepts, with their load date: the one built from
\* the arguments always has the key, inline JSON and files may lack it.
DatedConfigs(by) ==
  IF by = "args"
  THEN {WithLoadDate(create_job_config_from_args(c), d) :
          c \in {x \in SuppliedConfigs(by) : DOMAIN create_job_config_from_args(x) # {}},
          d \in {NoLoadDate} \cup Days}
  ELSE LET whole == {c \in SuppliedConfigs(by) : MissingFields(c) = <<>>}
       IN whole \cup {WithLoadDate(c, d) : c \in whole, d \in {NoLoadDate} \cup Days}

HasLoadDate(cfg) == "load_date" \in DOMAIN cfg /\ cfg.load_date # NoLoadDate

\* execute_single_job, lines 155-156: the dictionary it was given, as it is
\* when execute_job receives it.  The assignment is made in the caller's
\* object.
execute_single_job(cfg, day) ==
  IF HasLoadDate(cfg) THEN cfg ELSE WithLoadDate(cfg, day)

\* Variant: the supervisor hands its own dictionary to every run.
SupervisorConfigShared(own, passed) == passed

\* The supervisor's dictionary after a run that was given job_config.copy():
\* the run's assignment went to the copy.
SupervisorConfig(own, passed) == own

InitLoadDate ==
  /\ tables = [t \in {main_table, backup_table} |-> Empty]
  /\ staged = Absent
  /\ threshold = DefaultThreshold
  /\ pc = "idle"
  /\ runs = 0
  /\ startMain = tables[main_table]
  /\ startStaged = staged
  /\ atRisk = Empty
  /\ RunInit
  /\ supplied_by \in {"args", "json", "file"}
  /\ job_config \in DatedConfigs(supplied_by)
  /\ continuous \in BOOLEAN
  /\ app_pc = IF continuous THEN "sup_loop" ELSE "exec"
  /\ interval = 0
  /\ settings_empty = {}
  /\ shutdown_requested = FALSE
  /\ stats = NoStats
  /\ sleep_left = 0
  /\ job_result = NoResult
  /\ job_start = 0
  /\ exit_code = NoCount
  /\ handlerCalls = 0
  /\ poc_dest = Empty
  /\ poc_source = 0
  /\ last_rows = NoCount
  /\ run_config = NoConfig
  /\ today = 1
  /\ call_stack = <<>>
  /\ trunc_pc = "idle"

\* Single execution: main calls execute_single_job with its own dictionary.
CallWithOwnConfig ==
  /\ app_pc = "exec"
  /\ ~continuous
  /\ run_config' = execute_single_job(job_config, today)
  /\ job_config' = run_config'
  /\ app_pc' = "returned"
  /\ UNCHANGED <<supplied_by, continuous, interval, settings_empty, shutdown_requested,
                 stats, sleep_left, job_result, job_start, exit_code, handlerCalls,
                 poc_dest, poc_source, last_rows, today, call_stack, trunc_pc>>
  /\ UNCHANGED runvars

\* One round of the supervisor's loop: the run is counted, execute_single_job
\* is called with a copy of the supervisor's dictionary, and the outcome is
\* tallied.
CallWithCopy ==
  /\ app_pc = "sup_loop"
  /\ continuous
  /\ stats.total_runs < MaxSupRuns
  /\ run_config' = execute_single_job(job_config, today)
  /\ job_config' = SupervisorConfig(job_config, run_config')
  /\ \E status \in {"Success", "Failed"}, raised \in BOOLEAN :
       stats' = Tally(BeginRun(stats), [status |-> status], raised)
  /\ UNCHANGED <<app_pc, supplied_by, continuous, interval, settings_empty,
                 shutdown_requested, sleep_left, job_result, job_start, exit_code,
                 handlerCalls, poc_dest, poc_source, last_rows, today, call_stack,
                 trunc_pc>>
  /\ UNCHANGED runvars

\* Midnight passes.
NextDay ==
  /\ today < MaxDay
  /\ today' = today + 1
  /\ UNCHANGED <<app_pc, job_config, supplied_by, continuous, interval, settings_empty,
                 shutdown_requested, stats, sleep_left, job_result, job_start,
                 exit_code, handlerCalls, poc_dest, poc_source, last_rows, run_config,
                 call_stack, trunc_pc>>
  /\ UNCHANGED runvars

NextLoadDate ==
  \/ CallWithOwnConfig
  \/ CallWithCopy
  \/ NextDay

SpecLoadDate == InitLoadDate /\ [][NextLoadDate]_vars

\* The values DATA_VARIANCE_THRESHOLD may be given in the environment: a float
\* within the range, at its ends, just outside it, or not a number.
ConfiguredThresholds ==
  {MinThreshold - 1, MinThreshold, DefaultThreshold, MaxThreshold, MaxThreshold + 1,
   NotANumber}

\* A single execution of a complete configuration built from the arguments,
\* with any configured threshold.
InitThreshold ==
  /\ tables = [t \in {main_table, backup_table} |->
                 IF t = main_table THEN Content("prod", 1000) ELSE Empty]
  /\ staged = Absent
  /\ threshold \in ConfiguredThresholds
  /\ pc = "idle"
  /\ runs = 0
  /\ startMain = tables[main_table]
  /\ startStaged = staged
  /\ atRisk = Empty
  /\ RunInit
  /\ app_pc = "main"
  /\ supplied_by = "args"
  /\ job_config \in {c \in SuppliedConfigs(supplied_by) : DOMAIN c = {"id", "type"}}
  /\ continuous = FALSE
  /\ interval = 0
  /\ settings_empty = {}
  /\ shutdown_requested = FALSE
  /\ stats = NoStats
  /\ sleep_left = 0
  /\ job_result = NoResult
  /\ job_start = 0
  /\ exit_code = NoCount
  /\ handlerCalls = 0
  /\ poc_dest = Empty
  /\ poc_source \in (IF JobType(job_config) = "control_m_poc_etl"
                      THEN PocSourceRows ELSE {0})
  /\ last_rows = NoCount
  /\ run_config = NoConfig
  /\ today = 1
  /\ call_stack = <<>>
  /\ trunc_pc = "idle"

NextThreshold ==
  \/ SignalHandler
  \/ Main
  \/ ExecuteJob
  \/ InvokeProduction
  \/ CreateAndValidateBackup
  \/ ExtractCdpData
  \/ TransformData
  \/ StageToS3
  \/ LoadToDestination
  \/ ValidateAndAlert
  \/ CompleteSuccess
  \/ CompleteFailed
  \/ HandlerReturn
  \/ HandlerRaises
  \/ RunControlMPocEtl
  \/ SingleFinish

SpecThreshold == InitThreshold /\ [][NextThreshold]_vars

(***************************************************************************)
(* Properties                                                              *)
(***************************************************************************)
IsPrefix(a, b) == Len(a) <= Len(b) /\ \A i \in 1 .. Len(a) : a[i] = b[i]
Steps(sq) == {sq[i] : i \in 1 .. Len(sq)}
PreLoadFailures ==
  {"Backup creation failed", "CDP extraction failed",
   "Data transformation failed", "S3 staging failed"}
EmptyLoadMessage == "No rows loaded despite successful write operation!"
CountDiff == IF current_count >= previous_count
             THEN current_count - previous_count
             ELSE previous_count - current_count
Exceeds == IF previous_count > 0
           THEN CountDiff * 100 >= threshold * previous_count
           ELSE 0 >= threshold

\* C1: the production table is truncated only after Backup Guard has
\* returned normally: whenever a truncate of the production table has been
\* issued in a run, step 1 has returned and either it counted an empty
\* production table or the backup location holds as many rows as it counted.
C1_TruncateOnlyAfterBackup ==
  mainTruncCalls > 0 =>
    /\ "backup" \in Steps(returned)
    /\ origRead # NoCount
    /\ \/ origRead = 0
       \/ /\ bkRead = origRead
          /\ get_table_count(tables, backup_table) = origRead

C1_Witness ==
  /\ mainTruncCalls = 1
  /\ mainEmptied
  /\ origRead = 1000
  /\ get_table_count(tables, backup_table) = 1000

\* C2: when the backup count read after the copy differs from the original
\* count, the run fails with a backup-validation error and issues no
\* truncate of the production table.
C2_BackupMismatchFails ==
  (bkRead # NoCount /\ bkRead # origRead) =>
    /\ mainTruncCalls = 0
    /\ pc \in {"failed", "done"}
    /\ error = [prefix |-> "Backup creation failed", cause |-> "Backup validation failed"]
    /\ pc = "done" => (result.status = "Failed" /\ result.error = error)

C2_Witness ==
  /\ pc = "done"
  /\ origRead = 1000
  /\ bkRead = 950
  /\ result.status = "Failed"
  /\ mainTruncCalls = 0

\* C3: the steps of a run start in the order Backup, Extract, Transform,
\* Stage, Load, Validate, each only after its predecessor has returned
\* normally, and after a failing step no further step starts.
C3_StepOrder ==
  /\ IsPrefix(started, StepOrder)
  /\ IsPrefix(returned, started)
  /\ Len(started) <= Len(returned) + 1
  /\ error # NoError => (Len(started) = Len(returned) + 1 /\ pc \in {"failed", "done"})
  /\ error = NoError => started = returned

C3_Witness ==
  /\ pc = "done"
  /\ started = StepOrder
  /\ returned = StepOrder
  /\ result.status = "Success"

\* C4: when Backup Guard, Extract, Transform or Stage fails, the run returns
\* Failed and the production table still holds the rows it held at the start
\* of the run, never truncated and never written.
C4_EarlyFailureLeavesProduction ==
  error.prefix \in PreLoadFailures =>
    /\ tables[main_table] = startMain
    /\ mainTruncCalls = 0
    /\ mainWriteCalls = 0
    /\ pc \in {"failed", "done"}
    /\ pc = "done" => result.status = "Failed"

C4_Witness ==
  /\ pc = "done"
  /\ error.prefix = "S3 staging failed"
  /\ result.status = "Failed"
  /\ startMain.n = 1000
  /\ tables[main_table] = startMain

\* C5 as stated: an error raised while the production table has not been
\* truncated leaves every durable store except the backup location as it
\* was at the start of the run, the staging path included.
C5_Original ==
  (error # NoError /\ ~mainEmptied) =>
    /\ tables[main_table] = startMain
    /\ staged = startStaged

\* C5 as amended: an error raised while the production table has not been
\* truncated aborts the run and leaves the production table as it was at the
\* start of the run; the backup location and the staging path may differ.
C5_NoTruncationLeavesProduction ==
  (error # NoError /\ ~mainEmptied) =>
    /\ tables[main_table] = startMain
    /\ mainWriteCalls = 0
    /\ pc \in {"failed", "done"}
    /\ pc = "done" => result.status = "Failed"

C5_Witness ==
  /\ pc = "done"
  /\ result.status = "Failed"
  /\ ~mainEmptied
  /\ startMain.n = 1000
  /\ tables[main_table] = startMain
  /\ staged # startStaged

\* C6: once the production table has been truncated, the rows it held stay
\* in the backup location until the production table has been reloaded
\* successfully, across later runs.
C6_BackupSurvives ==
  atRisk # Empty => tables[backup_table] = atRisk

\* C7: a count of zero read back after a write that raised nothing makes the
\* run fail with the empty-load error, and Validate is not started.
C7_EmptyLoadFails ==
  finalRead = 0 =>
    /\ mainWriteCalls = 1
    /\ pc \in {"failed", "done"}
    /\ error = [prefix |-> "Destination load failed", cause |-> EmptyLoadMessage]
    /\ "validate" \notin Steps(started)
    /\ pc = "done" => (result.status = "Failed" /\ result.error = error)

C7_Witness ==
  /\ pc = "done"
  /\ finalRead = 0
  /\ df_transformed.n = 1000
  /\ result.status = "Failed"

\* C8: a non-zero count read back that differs from the number of rows
\* written does not fail the load step: Validate is the next step, and the
\* run can end with status Success.
C8_MismatchNotFatal ==
  (finalRead # NoCount /\ finalRead # 0 /\ finalRead # df_transformed.n) =>
    /\ "load" \in Steps(returned)
    /\ error.prefix # "Destination load failed"
    /\ pc \in {"validate", "validated", "failed", "done"}
    /\ pc = "failed" => "validate" \in Steps(started)
    /\ (pc = "done" /\ "validate" \in Steps(returned)) => result.status = "Success"

C8_Witness ==
  /\ pc = "done"
  /\ result.status = "Success"
  /\ df_transformed.n = 1000
  /\ finalRead = 950
  /\ result.rows_processed = 950

\* C9: for non-negative counts the variance percentage is
\* |current - previous| / previous * 100 when previous > 0 and 0 when
\* previous = 0, with a non-zero denominator in every case.
C9_VariancePercentage ==
  pc = "returned" =>
    LET v == variance_result.variance_percentage IN
    /\ v.den > 0
    /\ previous_count > 0 => v.num * previous_count = CountDiff * 100 * v.den
    /\ previous_count = 0 => v.num = 0

C9_Witness ==
  /\ pc = "returned"
  /\ previous_count = 100
  /\ current_count = 105
  /\ variance_result.variance_percentage.num =
       5 * variance_result.variance_percentage.den

\* C10: a variance alert is attempted exactly when the variance percentage
\* reaches the threshold (boundary included); with threshold 5, 1000 -> 1000
\* sends no alert and 1000 -> 950 sends one; the run is a Success either way
\* and variance_threshold_exceeded reports the comparison.
C10_AlertIffThreshold ==
  /\ alertsAttempted \in {0, 1}
  /\ alertsAttempted = 1 <=> ("validate" \in Steps(returned) /\ Exceeds)
  /\ (pc = "done" /\ "validate" \in Steps(returned)) =>
       /\ result.status = "Success"
       /\ result.variance_threshold_exceeded = Exceeds
       /\ (threshold = DefaultThreshold /\ previous_count = 1000 /\ current_count = 1000)
            => alertsAttempted = 0
       /\ (threshold = DefaultThreshold /\ previous_count = 1000 /\ current_count = 950)
            => alertsAttempted = 1

C10_Witness ==
  /\ pc = "done"
  /\ threshold = DefaultThreshold
  /\ previous_count = 1000
  /\ current_count = 950
  /\ alertsAttempted = 1
  /\ result.status = "Success"
  /\ result.variance_threshold_exceeded

\* C11: when the variance alert fires and the notifier does not deliver it,
\* the result records email_sent = FALSE and the run is still a Success;
\* whatever the notifier returns, a validated run ends with status Success.
C11_AlertFailureNotEscalated ==
  /\ alertOutcome # "none" =>
       /\ variance_result.threshold_exceeded
       /\ variance_result.email_sent = (alertOutcome = "delivered")
       /\ pc \in {"validated", "done"}
       /\ error = NoError
  /\ (alertOutcome # "none" /\ pc = "done") =>
       /\ result.status = "Success"
       /\ result.email_sent = (alertOutcome = "delivered")

C11_Witness ==
  /\ pc = "done"
  /\ alertOutcome = "failed"
  /\ result.status = "Success"
  /\ result.variance_threshold_exceeded
  /\ ~result.email_sent

\* C12: a run of the production workflow attempts exactly one completion
\* notification, sent when the run completes, whose status is the status of
\* the returned result; the status is Success exactly when all six steps
\* returned, whatever the delivery outcome.
C12_OneCompletionNotification ==
  /\ pc # "done" => notes = <<>>
  /\ pc = "done" =>
       /\ Len(notes) = 1
       /\ notes[1].status = result.status
       /\ result.status \in {"Success", "Failed"}
       /\ result.status = "Success" <=> returned = StepOrder

C12_Witness ==
  /\ pc = "done"
  /\ Len(notes) = 1
  /\ notes[1].status = "Failed"
  /\ ~notes[1].delivered
  /\ result.status = "Failed"

\* C13: a job whose configured type is not a registered job type is answered
\* by dispatch with a Failed result naming that type, and no handler,
\* warehouse, object store or notifier is called for it.
C13_UnsupportedTypeFails ==
  ("type" \in DOMAIN job_config /\ job_config.type \notin JobTypes) =>
    /\ handlerCalls = 0
    /\ app_pc \notin {"handler_call", "in_handler"}
    /\ started = <<>>
    /\ notes = <<>>
    /\ alertsAttempted = 0
    /\ mainTruncCalls = 0 /\ mainWriteCalls = 0
    /\ tables[main_table] = Content("prod", 1000) /\ tables[backup_table] = Empty
    /\ staged = Absent
    /\ poc_dest = Empty
    /\ app_pc = "returned" =>
         /\ job_result.status = "Failed"
         /\ job_result.error = UnknownTypeError(job_config.type)

C13_Witness ==
  /\ app_pc = "returned"
  /\ "type" \in DOMAIN job_config
  /\ job_config.type = "simple_etl"
  /\ job_result.status = "Failed"
  /\ job_result.error.prefix = "Unknown job type"
  /\ job_result.error.cause = "simple_etl"
  /\ handlerCalls = 0

\* C14: a production job dispatched while some required settings are empty is
\* answered with a Failed result whose error lists every empty required
\* setting, and the production handler is not entered by that dispatch.
C14_AllMissingFieldsListed ==
  /\ (JobType(job_config) = "jcap_pa_etl" /\ app_pc \in {"handler_call", "in_handler"}) =>
       settings_empty = {}
  /\ (JobType(job_config) = "jcap_pa_etl" /\ app_pc = "returned" /\ settings_empty # {}) =>
       /\ clock = 0
       /\ job_result.status = "Failed"
       /\ job_result.error.prefix = "Configuration validation failed"
       /\ {job_result.error.missing[i] : i \in DOMAIN job_result.error.missing}
            = settings_empty
       /\ Len(job_result.error.missing) = Cardinality(settings_empty)

C14_Witness ==
  /\ app_pc = "returned"
  /\ JobType(job_config) = "jcap_pa_etl"
  /\ Cardinality(settings_empty) = MaxMissing
  /\ job_result.status = "Failed"
  /\ Len(job_result.error.missing) = MaxMissing
  /\ clock = 0

\* A dispatch whose handler was entered has returned a Failed result.
HandlerFailed ==
  /\ app_pc = "returned"
  /\ clock > 0
  /\ job_result.status = "Failed"

\* C15 as stated: every failure of a handler is returned as a Failed result
\* whose duration is measured from the start time the dispatcher read before
\* it called the handler.
C15_Original ==
  HandlerFailed =>
    /\ job_result.start_time = job_start
    /\ job_result.duration_seconds = job_result.end_time - job_start

\* C15 as amended: no failure of a handler leaves dispatch; it is returned as
\* a Failed result carrying the error.  When the handler converts the error
\* itself, the duration is measured from the start time the handler read as
\* its first statement, after it was called; when the exception leaves the
\* handler, from the start time the dispatcher read before the call.
C15_HandlerFailureConverted ==
  /\ app_pc = "raised" => clock = 0
  /\ HandlerFailed =>
       /\ "error" \in DOMAIN job_result
       /\ job_result.error # NoError
       /\ job_result.end_time <= clock
       /\ job_result.duration_seconds = job_result.end_time - job_result.start_time
       /\ job_result.duration_seconds >= 0
       /\ job_result.start_time =
            (IF job_result.error = EscapedError THEN job_start ELSE job_start + 1)
       /\ (JobType(job_config) = "jcap_pa_etl" /\ pc = "done") =>
            job_result.error = error

C15_Witness ==
  /\ HandlerFailed
  /\ JobType(job_config) = "jcap_pa_etl"
  /\ pc = "done"
  /\ job_result.error = error
  /\ job_result.start_time = job_start + 1
  /\ job_result.duration_seconds = job_result.end_time - (job_start + 1)

\* C16: every result returned by dispatch carries rows_processed, which is 0
\* when the status is Failed, and carries an error exactly when the status is
\* Failed.
C16_RowsProcessedOnFailure ==
  app_pc = "returned" =>
    /\ "rows_processed" \in DOMAIN job_result
    /\ job_result.status = "Failed" => job_result.rows_processed = 0
    /\ ("error" \in DOMAIN job_result) <=> (job_result.status = "Failed")

\* C17: every result returned by dispatch carries the id, the name and the
\* type of the dispatched configuration as job_id, job_name and job_type; a
\* configuration without a name is named "job-" followed by its id.
C17_IdentityMerged ==
  app_pc = "returned" =>
    /\ {"job_id", "job_name", "job_type"} \subseteq DOMAIN job_result
    /\ job_result.job_id = job_config.id
    /\ job_result.job_type = job_config.type
    /\ job_result.job_name =
         (IF "name" \in DOMAIN job_config THEN job_config.name
          ELSE <<"job-", job_config.id>>)

C17_Witness ==
  /\ app_pc = "returned"
  /\ job_result.status = "Success"
  /\ "name" \in DOMAIN job_config
  /\ job_result.job_id = "j1"
  /\ job_result.job_name = <<"nightly">>
  /\ job_result.job_type = "jcap_pa_etl"

\* C18: a configuration that lacks type or id never reaches dispatch: main
\* ends with exit code 1 and no handler is entered, whether the configuration
\* came from the arguments, the inline JSON or a file.
C18_IncompleteConfigRefused ==
  ~({"type", "id"} \subseteq DOMAIN job_config) =>
    /\ app_pc \in {"main", "exited"}
    /\ app_pc = "exited" => exit_code = 1
    /\ handlerCalls = 0
    /\ job_result = NoResult
    /\ started = <<>>

C18_Witness ==
  /\ app_pc = "exited"
  /\ supplied_by = "json"
  /\ DOMAIN job_config = {"type", "name"}
  /\ job_config.type = "jcap_pa_etl"
  /\ exit_code = 1
  /\ handlerCalls = 0

\* C19: in continuous mode every run that has completed is counted exactly
\* once, as successful or as failed: between runs total_runs =
\* successful_runs + failed_runs, and while a run is in progress it is the
\* one run not counted yet.
C19_RunsAddUp ==
  continuous =>
    /\ app_pc \in {"sup_loop", "sup_wait", "sup_sleeping", "exited"} =>
         stats.total_runs = stats.successful_runs + stats.failed_runs
    /\ app_pc \in {"exec", "handler_call", "in_handler", "returned", "raised"} =>
         stats.total_runs = stats.successful_runs + stats.failed_runs + 1

C19_Witness ==
  /\ continuous
  /\ app_pc = "sup_wait"
  /\ stats.total_runs = 2
  /\ stats.successful_runs = 1
  /\ stats.failed_runs = 1

\* C20: in continuous mode no step decreases total_runs, successful_runs,
\* failed_runs or total_rows_processed.
C20_CountersMonotone ==
  [][continuous =>
       /\ stats'.total_runs >= stats.total_runs
       /\ stats'.successful_runs >= stats.successful_runs
       /\ stats'.failed_runs >= stats.failed_runs
       /\ stats'.total_rows_processed >= stats.total_rows_processed]_vars

C20_Witness ==
  /\ continuous
  /\ app_pc = "sup_wait"
  /\ stats.total_runs = 2
  /\ stats.successful_runs = 2
  /\ stats.total_rows_processed > 1000

\* The supervisor is between two runs.
BetweenRuns == app_pc \in {"sup_loop", "sup_wait", "sup_sleeping"}

\* The run that has just ended did not succeed.
RunFailed ==
  \/ app_pc = "raised"
  \/ app_pc = "returned" /\ job_result.status = "Failed"

\* C21: a failed run never stops the supervisor.  While no run has succeeded,
\* every started run that has ended is counted as failed (after n failures
\* failed_runs = total_runs = n); a failed run that is tallied while no
\* shutdown is requested is followed by the wait, the loop is left from its
\* head only into the next run, and the supervisor ends only after a shutdown
\* request.
C21_FailuresDoNotStop ==
  /\ [](continuous /\ BetweenRuns /\ stats.successful_runs = 0
          => stats.failed_runs = stats.total_runs)
  /\ [][BetweenRuns /\ app_pc' = "exited" => shutdown_requested]_vars
  /\ [][continuous /\ RunFailed /\ app_pc' # app_pc /\ ~shutdown_requested'
          => /\ app_pc' = "sup_wait"
             /\ sleep_left' = interval
             /\ stats'.failed_runs = stats.failed_runs + 1
             /\ stats'.total_runs = stats.total_runs]_vars
  /\ [][app_pc = "sup_loop" /\ app_pc' # app_pc /\ ~shutdown_requested'
          => app_pc' = "exec" /\ stats'.total_runs = stats.total_runs + 1]_vars

\* Three runs in a row have failed, no shutdown is requested and the fourth
\* run has been started.
C21_Witness ==
  /\ continuous
  /\ app_pc = "exec"
  /\ stats.failed_runs = 3
  /\ stats.total_runs = 4
  /\ ~shutdown_requested

\* C22: once the shutdown flag is set the supervisor starts no new run.  The
\* flag is never cleared, and from then on total_runs does not change and the
\* supervisor, once between two runs, only waits, returns to the loop head or
\* stops; so a run during which the flag was set is the last one and no run
\* follows a wait during which it was set.
C22_NoRunAfterShutdown ==
  /\ [][shutdown_requested => shutdown_requested']_vars
  /\ [][continuous /\ shutdown_requested
          => /\ stats'.total_runs = stats.total_runs
             /\ (BetweenRuns => app_pc' \in {"sup_loop", "sup_wait", "sup_sleeping", "exited"})]_vars

\* The flag is set, a run has been made and more runs would have been made
\* without it.
C22_Witness ==
  /\ continuous
  /\ app_pc = "exited"
  /\ shutdown_requested
  /\ stats.total_runs >= 1
  /\ stats.total_runs < RunCap(job_config)

\* C23: when the shutdown flag is set during the wait between two runs, no
\* further second of sleep is begun: the second being slept, if any, ends, the
\* next test of the flag leaves the wait however many seconds remain, and the
\* supervisor stops at the loop head.
C23_WaitEndsWithinOneTick ==
  [][shutdown_requested /\ app_pc' # app_pc
       => /\ app_pc' # "sup_sleeping"
          /\ (app_pc = "sup_sleeping" => app_pc' = "sup_wait")
          /\ (app_pc = "sup_wait" => app_pc' = "sup_loop")
          /\ (app_pc = "sup_loop" => app_pc' = "exited")]_vars

\* The flag was set while a second of the wait was slept and at least one
\* more second of the interval remains.
C23_Witness ==
  /\ app_pc = "sup_wait"
  /\ shutdown_requested
  /\ sleep_left >= 1
  /\ sleep_left < interval

\* C24: a shutdown signal that arrives while a run is in flight does not abort
\* it.  The step of the signal handler changes nothing but the flag, so the
\* run goes on from where it was; a run of the supervisor, once started, ends
\* only by returning a result or by raising, with the flag set as without; and
\* an ended run is left only by tallying it: the counter that matches its
\* outcome grows by one, before the supervisor stops.
C24_SignalDoesNotAbortRun ==
  /\ [][shutdown_requested' # shutdown_requested
          => UNCHANGED <<app_pc, pc, stats, job_result, tables, staged, returned,
                         started, result, error, poc_dest, exit_code>>]_vars
  /\ [][continuous /\ app_pc \in {"exec", "handler_call", "in_handler"}
          => app_pc' \in {"exec", "handler_call", "in_handler", "returned", "raised"}]_vars
  /\ [][continuous /\ app_pc \in {"returned", "raised"} /\ app_pc' # app_pc
          => /\ app_pc' \in {"sup_loop", "sup_wait"}
             /\ stats'.total_runs = stats.total_runs
             /\ IF app_pc = "returned" /\ job_result.status = "Success"
                THEN /\ stats'.successful_runs = stats.successful_runs + 1
                     /\ stats'.failed_runs = stats.failed_runs
                ELSE /\ stats'.failed_runs = stats.failed_runs + 1
                     /\ stats'.successful_runs = stats.successful_runs]_vars

\* The flag was set after the run of the production job had been started (no
\* run is started with the flag set); its workflow has run all six steps and
\* returned Success, which is about to be tallied.
C24_Witness ==
  /\ continuous
  /\ shutdown_requested
  /\ app_pc = "returned"
  /\ JobType(job_config) = "jcap_pa_etl"
  /\ job_result.status = "Success"
  /\ returned = StepOrder

\* C25: the supervisor runs one job at a time.  A run is started only at the
\* loop head, when no workflow is in progress, no result is pending and every
\* run started before has been recorded as successful or failed; while a run
\* is in flight no other run is started; and within a run the dispatcher
\* calls a handler at most once.
C25_OneRunAtATime ==
  /\ [][continuous /\ stats'.total_runs # stats.total_runs
          => /\ app_pc = "sup_loop"
             /\ pc = "idle"
             /\ job_result = NoResult
             /\ stats.total_runs = stats.successful_runs + stats.failed_runs
             /\ stats'.total_runs = stats.total_runs + 1
             /\ app_pc' = "exec"]_vars
  /\ [][continuous /\ app_pc' = "exec" /\ app_pc # "exec"
          => stats'.total_runs = stats.total_runs + 1]_vars
  /\ [](continuous => handlerCalls <= 1)

\* The second run is in its handler and the first one has been recorded.
C25_Witness ==
  /\ continuous
  /\ app_pc = "in_handler"
  /\ pc = "load"
  /\ stats.total_runs = 2
  /\ stats.successful_runs + stats.failed_runs = 1

\* C26: in continuous mode, once shutdown is requested the supervisor
\* eventually stops, main has its exit code, and the final statistics account
\* for every run that was started: each is counted as successful or failed.
C26_ShutdownStops ==
  (continuous /\ shutdown_requested)
    ~> (/\ app_pc = "exited"
        /\ exit_code \in {0, 1}
        /\ stats.total_runs = stats.successful_runs + stats.failed_runs)

\* The supervisor has stopped on request after two runs, both accounted for.
C26_Witness ==
  /\ continuous
  /\ shutdown_requested
  /\ app_pc = "exited"
  /\ stats.total_runs = 2
  /\ stats.successful_runs = 1
  /\ stats.failed_runs = 1

\* C27: a process that was interrupted by the user exits with the
\* interruption exit code, 130.
C27_InterruptExitCode ==
  app_pc = "exited" /\ shutdown_requested => exit_code = InterruptExitCode

\* C28: in single execution mode, once the dispatched job has returned its
\* result, the exit code is 0 if and only if the status of the result is
\* Success; every Failed result gives exit code 1.
C28_SingleExitCode ==
  ~continuous /\ app_pc = "exited" /\ job_result # NoResult
    => /\ exit_code = 0 <=> job_result.status = "Success"
       /\ job_result.status = "Failed" => exit_code = 1

\* The production job was dispatched once, its handler returned a Failed
\* result and the process has ended with exit code 1.
C28_Witness ==
  /\ ~continuous
  /\ app_pc = "exited"
  /\ job_result # NoResult
  /\ job_result.status = "Failed"
  /\ handlerCalls = 1
  /\ exit_code = 1

\* C29: in continuous mode the exit code of a supervisor that has stopped is
\* 0 if and only if at least one run was started and successful_runs is at
\* least 50% of total_runs; in particular it is 1 when no run was started.
C29_ContinuousExitCode ==
  [][BetweenRuns /\ app_pc' = "exited"
       => /\ stats' = stats
          /\ exit_code' = 0 <=> /\ stats.total_runs > 0
                                /\ 2 * stats.successful_runs >= stats.total_runs
          /\ exit_code' \in {0, 1}
          /\ stats.total_runs = 0 => exit_code' = 1]_vars

\* The supervisor has stopped after two runs of which one succeeded, a rate of
\* exactly 50%, and the exit code is 0.
C29_Witness ==
  /\ continuous
  /\ app_pc = "exited"
  /\ stats.total_runs = 2
  /\ stats.successful_runs = 1
  /\ exit_code = 0

\* C30: two runs of the simple job with the same limit against a source that
\* was not changed in between report the same rows_processed, although each of
\* them appended its rows to the destination table.  The load date only sets
\* the value of a column that is added to every row and does not enter the
\* count.
C30_SameRowsProcessed ==
  /\ app_pc = "returned"
  /\ JobType(job_config) = "control_m_poc_etl"
  /\ job_result.status = "Success"
  /\ last_rows # NoCount
  => /\ job_result.rows_processed = last_rows
     /\ job_result.rows_processed = read_table(poc_source, Limit(job_config))
     /\ poc_dest.n >= 2 * last_rows

\* The simple job has succeeded twice with limit 10 on a source of 1000 rows:
\* both results report 10 rows and the destination has grown to 20 rows.
C30_Witness ==
  /\ app_pc = "returned"
  /\ JobType(job_config) = "control_m_poc_etl"
  /\ job_result.status = "Success"
  /\ poc_source = 1000
  /\ last_rows = 10
  /\ job_result.rows_processed = 10
  /\ poc_dest.n = 20

(***************************************************************************)
(* RedshiftConnector.truncate_table and execute_ddl, call by call          *)
(***************************************************************************)
\* Frames the interpreter allows on the call stack before a further call
\* raises RecursionError.
MaxFrames == 5

Frame(fn, name) == [fn |-> fn, table |-> name]
Top(stack) == stack[Len(stack)]
Pop(stack) == SubSeq(stack, 1, Len(stack) - 1)

\* Everything but the warehouse tables and the connector's call stack.
connector_rest ==
  <<staged, threshold, pc, previous_count, df, df_transformed, current_count,
    variance_result, error, result, runs, started, returned, mainTruncCalls,
    mainWriteCalls, mainEmptied, alertsAttempted, notes, origRead, bkRead,
    startMain, startStaged, finalRead, atRisk, alertOutcome, clock, start_time,
    app_pc, job_config, supplied_by, continuous, interval, settings_empty,
    shutdown_requested, stats, sleep_left, job_result, job_start, exit_code,
    handlerCalls, poc_dest, poc_source, last_rows, run_config, today>>

InitTruncate ==
  /\ tables \in [{main_table, backup_table} -> {Content("prod", k) : k \in RowCounts}]
  /\ staged = Absent
  /\ threshold = DefaultThreshold
  /\ pc = "idle"
  /\ runs = 0
  /\ startMain = tables[main_table]
  /\ startStaged = staged
  /\ atRisk = Empty
  /\ RunInit
  /\ AppIdle

\* A caller invokes truncate_table(table, schema).
CallTruncate ==
  /\ trunc_pc = "idle"
  /\ \E name \in {main_table, backup_table} :
       call_stack' = <<Frame("truncate_table", name)>>
  /\ trunc_pc' = "method1"
  /\ UNCHANGED tables
  /\ UNCHANGED connector_rest

\* Method 1: read one row for the schema, overwrite the table with the empty
\* frame.  The read or the overwrite may raise; a raising overwrite may have
\* emptied the table already.
SparkNativeTruncate ==
  /\ trunc_pc = "method1"
  /\ \E raised \in BOOLEAN, emptied \in BOOLEAN :
       /\ ~raised => emptied
       /\ tables' = IF emptied THEN [tables EXCEPT ![Top(call_stack).table] = Empty]
                    ELSE tables
       /\ trunc_pc' = IF raised THEN "method2" ELSE "returning"
  /\ UNCHANGED call_stack
  /\ UNCHANGED connector_rest

\* Method 2: the handler of the Spark failure calls
\* execute_ddl("TRUNCATE TABLE schema.table").
DdlFallback ==
  /\ trunc_pc = "method2"
  /\ IF Len(call_stack) < MaxFrames
     THEN /\ call_stack' = Append(call_stack, Frame("execute_ddl", Top(call_stack).table))
          /\ trunc_pc' = "ddl"
     ELSE /\ trunc_pc' = "raising"
          /\ UNCHANGED call_stack
  /\ UNCHANGED tables
  /\ UNCHANGED connector_rest

\* execute_ddl finds TRUNCATE in the statement, parses the table name out of
\* it and calls truncate_table(table, schema).
ExecuteDdl ==
  /\ trunc_pc = "ddl"
  /\ Top(call_stack).fn = "execute_ddl"
  /\ IF Len(call_stack) < MaxFrames
     THEN /\ call_stack' = Append(call_stack,
                                  Frame("truncate_table", Top(call_stack).table))
          /\ trunc_pc' = "method1"
     ELSE /\ trunc_pc' = "raising"
          /\ UNCHANGED call_stack
  /\ UNCHANGED tables
  /\ UNCHANGED connector_rest

\* The frame on top returns to its caller: truncate_table returns None,
\* execute_ddl returns True, and the caller returns in turn.
ReturnFrame ==
  /\ trunc_pc = "returning"
  /\ call_stack' = Pop(call_stack)
  /\ trunc_pc' = IF Len(call_stack) = 1 THEN "returned" ELSE "returning"
  /\ UNCHANGED tables
  /\ UNCHANGED connector_rest

\* The frame on top catches the exception and raises its own RuntimeError
\* ("Truncate operation failed" or "DDL execution failed") to its caller.
RaiseFrame ==
  /\ trunc_pc = "raising"
  /\ call_stack' = Pop(call_stack)
  /\ trunc_pc' = IF Len(call_stack) = 1 THEN "raised" ELSE "raising"
  /\ UNCHANGED tables
  /\ UNCHANGED connector_rest

NextTruncate ==
  \/ CallTruncate
  \/ SparkNativeTruncate
  \/ DdlFallback
  \/ ExecuteDdl
  \/ ReturnFrame
  \/ RaiseFrame

SpecTruncate == InitTruncate /\ [][NextTruncate]_vars

\* C31: a call of execute_single_job changes nothing in the configuration it
\* is given but an absent load date, which becomes the current date.  In
\* single execution the caller's configuration is the one changed in this
\* way; in continuous mode the supervisor's configuration is the same after
\* every run, and a run whose load date is absent receives the date of the day
\* on which it is started.
C31_ConfigOnlyLoadDateDefaulted ==
  [][run_config' # run_config
       => /\ \A k \in DOMAIN job_config \ {"load_date"} :
               /\ k \in DOMAIN run_config' /\ run_config'[k] = job_config[k]
               /\ k \in DOMAIN job_config' /\ job_config'[k] = job_config[k]
          /\ DOMAIN run_config' = DOMAIN job_config \cup {"load_date"}
          /\ DOMAIN job_config' \subseteq DOMAIN job_config \cup {"load_date"}
          /\ run_config'.load_date =
               IF HasLoadDate(job_config) THEN job_config.load_date ELSE today
          /\ HasLoadDate(job_config) => job_config' = job_config
          /\ continuous => job_config' = job_config
          /\ ~continuous => job_config' = run_config']_vars

\* The supervisor's configuration has no load date after two runs, and the
\* second run, started on day 2, was given the load date 2.
C31_Witness ==
  /\ continuous
  /\ stats.total_runs = 2
  /\ ~HasLoadDate(job_config)
  /\ today = 2
  /\ run_config.load_date = 2

\* C32: with a configured threshold outside the range 0 to 100 the process
\* ends when the settings are loaded: no handler is called and no step of the
\* workflow is taken.
C32_OutOfRangeThresholdRejected ==
  ~(threshold # NotANumber /\ MinThreshold <= threshold /\ threshold <= MaxThreshold)
    => /\ app_pc \in {"main", "exited"}
       /\ handlerCalls = 0
       /\ started = <<>>

\* The step has returned in this run.
HasReturned(step) == \E i \in DOMAIN returned : returned[i] = step

C34_BackupReturnsOriginalCount ==
  /\ pc = "failed" /\ started = <<"backup">> /\ error.cause = "Truncate operation failed"
       => origRead = NoCount
  /\ HasReturned("backup")
       => /\ previous_count = origRead
          /\ previous_count = startMain.n
          /\ previous_count = 0 => bkRead = NoCount
          /\ previous_count > 0 => bkRead = previous_count
  /\ HasReturned("validate")
       => variance_result.variance_percentage =
            VariancePercentage(origRead, current_count)
  /\ result # NoResult /\ result.status = "Success"
       => result.previous_count = origRead

\* The production table was empty: Backup Guard returned 0 without copying,
\* and the run went on to succeed with previous_count 0.
C34_Witness ==
  /\ result # NoResult
  /\ result.status = "Success"
  /\ origRead = 0
  /\ bkRead = NoCount
  /\ result.previous_count = 0
  /\ result.current_count = 1000

\* The run is past Backup Guard and has not ended.
AfterGuard ==
  pc \in {"extract", "transform", "stage", "load", "validate", "validated", "failed"}

C36_MutualCallsBounded ==
  Len(call_stack) < MaxFrames

\* The collaborator failures of the load step: the truncate, the count of
\* the rows to write, the write, the count read back.
LoadCallFailures ==
  {"Truncate operation failed", "count failed", "Write operation failed",
   "Count operation failed"}

\* C37: a run whose extract returned zero rows never succeeds.  Its load step
\* truncates the production table although there is nothing to write: unless
\* the truncate itself raised, the table is empty from then on; and when every
\* call of the load step returned, the step fails with the empty-load error
\* after reading back a count of 0, and the run ends Failed with the
\* production table empty.
C37_EmptyExtractEmptiesProduction ==
  HasReturned("extract") /\ df.n = 0 =>
    /\ ~HasReturned("load")
    /\ result # NoResult => result.status = "Failed"
    /\ Len(started) >= 5 =>
         /\ pc \in {"failed", "done"}
         /\ mainTruncCalls = 1
         /\ error.prefix = "Destination load failed"
         /\ error.cause # "Truncate operation failed" =>
              /\ mainEmptied
              /\ tables[main_table] = Empty
         /\ error.cause \notin LoadCallFailures =>
              /\ error.cause = "No rows loaded despite successful write operation!"
              /\ finalRead = 0
              /\ tables[main_table] = Empty

\* Nothing was extracted, the production table held 1000 rows, and the run
\* ended Failed on the empty-load error with the table empty.
C37_Witness ==
  /\ pc = "done"
  /\ df.n = 0
  /\ startMain.n = 1000
  /\ error.cause = "No rows loaded despite successful write operation!"
  /\ result.status = "Failed"
  /\ tables[main_table] = Empty

\* C38: a Success result reports a positive rows_processed, which is the
\* count of the production table read by the Validate step after the load and
\* the number of rows the table holds; in the run that produced it the
\* production table was truncated exactly once and written exactly once, the
\* truncate having emptied it.
C38_SuccessRowsAndSingleLoad ==
  result # NoResult /\ result.status = "Success" =>
    /\ result.rows_processed > 0
    /\ result.rows_processed = current_count
    /\ result.rows_processed = get_table_count(tables, main_table)
    /\ HasReturned("load") /\ HasReturned("validate")
    /\ mainTruncCalls = 1
    /\ mainEmptied
    /\ mainWriteCalls = 1

\* A run succeeded after a write that persisted 950 of its 1000 rows: the
\* result reports the 950 counted, after one truncate and one write.
C38_Witness ==
  /\ result # NoResult
  /\ result.status = "Success"
  /\ df_transformed.n = 1000
  /\ result.rows_processed = 950
  /\ startMain.n = 1000
  /\ mainTruncCalls = 1
  /\ mainWriteCalls = 1

\* C39: in continuous mode total_rows_processed is the sum of the
\* rows_processed of the runs counted as successful.  It is 0 while no run has
\* been counted as successful; the step that counts a run as successful
\* records a returned Success result and adds exactly that result's
\* rows_processed; every other step, the counting of a Failed result or of a
\* run that raised included, leaves it unchanged.
C39_RowsSumOverSuccessfulRuns ==
  /\ [](continuous /\ stats.successful_runs = 0 => stats.total_rows_processed = 0)
  /\ [][continuous /\ stats'.successful_runs # stats.successful_runs
          => /\ app_pc = "returned"
             /\ job_result.status = "Success"
             /\ stats'.successful_runs = stats.successful_runs + 1
             /\ stats'.failed_runs = stats.failed_runs
             /\ stats'.total_rows_processed =
                  stats.total_rows_processed + RowsProcessed(job_result)]_vars
  /\ [][continuous /\ stats'.successful_runs = stats.successful_runs
          => stats'.total_rows_processed = stats.total_rows_processed]_vars
  /\ [][continuous /\ stats'.failed_runs # stats.failed_runs
          => /\ app_pc = "raised" \/ job_result.status # "Success"
             /\ stats'.total_rows_processed = stats.total_rows_processed]_vars

\* Two production runs were counted as successful, one of 1000 rows and one
\* of 950 rows, and the total is 1950.
C39_Witness ==
  /\ continuous
  /\ app_pc = "sup_wait"
  /\ JobType(job_config) = "jcap_pa_etl"
  /\ stats.successful_runs = 2
  /\ stats.failed_runs = 0
  /\ stats.total_rows_processed = 1950

\* C40: the shutdown flag, once set, stays set.  The supervisor is entered
\* with all its counters at 0 and the flag as it was; when it finds the flag
\* set at the loop head before any run, its only step is to stop: no run is
\* started, no handler is called, no workflow step is taken, and the
\* statistics it returns are all 0.
C40_ShutdownBeforeFirstRun ==
  /\ [][shutdown_requested => shutdown_requested']_vars
  /\ [][app_pc = "main" /\ app_pc' = "sup_loop"
          => /\ stats' = NoStats
             /\ shutdown_requested' = shutdown_requested]_vars
  /\ [](continuous /\ stats.total_runs = 0
          => /\ stats = NoStats
             /\ handlerCalls = 0
             /\ pc = "idle")
  /\ [][continuous /\ app_pc = "sup_loop" /\ shutdown_requested /\ stats.total_runs = 0
          => /\ app_pc' = "exited"
             /\ stats' = NoStats
             /\ handlerCalls' = 0
             /\ pc' = "idle"
             /\ tables' = tables]_vars

\* The flag was set before the supervisor's first test of it and the
\* supervisor, entered with an accepted configuration, has stopped with no
\* run and all counters at 0.
C40_Witness ==
  /\ continuous
  /\ app_pc = "exited"
  /\ "name" \in DOMAIN job_config
  /\ shutdown_requested
  /\ stats = NoStats
  /\ pc = "idle"
  /\ handlerCalls = 0

====
